---- MODULE Spec2Model ----
(***************************************************************************)
(* A model of ai-generators/build_public_pages.py: the record loader, the  *)
(* field resolver, the brand discoverer, the page shell, the seven page    *)
(* assemblers and the build orchestrator (the __main__ block).             *)
(*                                                                         *)
(* Python values are tagged records; a Python str is a sequence of one-    *)
(* character strings, so that strip(), title() and escape_html() are       *)
(* computed and not assumed.  A dict is a function from keys to values.    *)
(***************************************************************************)
EXTENDS Integers, Sequences, FiniteSets, TLC

VARIABLES
    fs,         \* the schemas/ tree: the input directories and their files
    repo,       \* the GITHUB_REPOSITORY environment variable ("" when unset)
    files,      \* the seven target files in the repository root
    marker,     \* the .nojekyll marker file
    pc,         \* the orchestrator's position
    clock,      \* the build counter: stamps pages and file writes
    anySuccess, \* any_success of __main__
    returned,   \* per target: what its generator did in the current run
    status,     \* the exit status of the last finished process
    prev,       \* the target files as the previous run left them
    rec,        \* function specifications: the record a function is applied to
    canon,      \* resolver specification: the canonical field
    path,       \* function specifications: the file a function is applied to
    out,        \* function specifications: the value the function returned
    rpc         \* function specifications: position

vars == <<fs, repo, files, marker, pc, clock, anySuccess, returned, status,
          prev, rec, canon, path, out, rpc>>

(***************************************************************************)
(* Bounds                                                                  *)
(***************************************************************************)
MaxRuns == 2        \* successive builds of one repository
MaxKeys == 2        \* keys of a record drawn for the field resolver

(***************************************************************************)
(* Python values                                                           *)
(***************************************************************************)
Null    == [t |-> "null"]
Str(s)  == [t |-> "str", s |-> s]
Num(n)  == [t |-> "num", n |-> n]
Lst(l)  == [t |-> "list", l |-> l]
Dict(d) == [t |-> "dict", d |-> d]

IsStr(v)  == v.t = "str"
IsNum(v)  == v.t = "num"
IsList(v) == v.t = "list"
IsDict(v) == v.t = "dict"

\* Python truthiness: bool(v)
Truthy(v) ==
    CASE v.t = "null" -> FALSE
      [] v.t = "str"  -> Len(v.s) > 0
      [] v.t = "num"  -> v.n # 0
      [] v.t = "list" -> Len(v.l) > 0
      [] v.t = "dict" -> DOMAIN v.d # {}

\* v == 0
EqZero(v) == v.t = "num" /\ v.n = 0

\* d.get(k) on a dict value
Get(v, k) == IF k \in DOMAIN v.d THEN v.d[k] ELSE Null

\* a or b
Or(a, b) == IF Truthy(a) THEN a ELSE b

(***************************************************************************)
(* Python str operations on character sequences                            *)
(***************************************************************************)
Whitespace == {" ", "\t", "\n"}

RECURSIVE LStrip(_)
LStrip(s) == IF s # <<>> /\ Head(s) \in Whitespace THEN LStrip(Tail(s)) ELSE s

RECURSIVE RStrip(_)
RStrip(s) ==
    IF s # <<>> /\ s[Len(s)] \in Whitespace
    THEN RStrip(SubSeq(s, 1, Len(s) - 1)) ELSE s

\* str.strip()
Strip(s) == RStrip(LStrip(s))

LowerAlpha == <<"a","b","c","d","e","f","g","h","i","j","k","l","m",
                "n","o","p","q","r","s","t","u","v","w","x","y","z">>
UpperAlpha == <<"A","B","C","D","E","F","G","H","I","J","K","L","M",
                "N","O","P","Q","R","S","T","U","V","W","X","Y","Z">>

IsLowerCh(c) == \E i \in 1..26 : LowerAlpha[i] = c
IsUpperCh(c) == \E i \in 1..26 : UpperAlpha[i] = c
IsAlphaCh(c) == IsLowerCh(c) \/ IsUpperCh(c)
UpperCh(c) == IF IsLowerCh(c)
              THEN UpperAlpha[CHOOSE i \in 1..26 : LowerAlpha[i] = c] ELSE c
LowerCh(c) == IF IsUpperCh(c)
              THEN LowerAlpha[CHOOSE i \in 1..26 : UpperAlpha[i] = c] ELSE c

\* str.title(): a cased character is upper-cased after an uncased one (or
\* at the start) and lower-cased after a cased one
Title(s) ==
    [i \in 1..Len(s) |->
        IF i = 1 \/ ~IsAlphaCh(s[i - 1]) THEN UpperCh(s[i]) ELSE LowerCh(s[i])]

\* str.replace(a, b) for single characters
ReplaceCh(s, a, b) == [i \in 1..Len(s) |-> IF s[i] = a THEN b ELSE s[i]]

\* s.split(sep, 1)[-1]: the text after the first sep, or all of s
RECURSIVE AfterFirst(_, _)
AfterFirst(s, sep) ==
    IF \A i \in 1..Len(s) : s[i] # sep THEN s
    ELSE IF Head(s) = sep THEN Tail(s) ELSE AfterFirst(Tail(s), sep)

RECURSIVE Flatten(_)
Flatten(ss) == IF ss = <<>> THEN <<>> ELSE Head(ss) \o Flatten(Tail(ss))

Digits == <<"0","1","2","3","4","5","6","7","8","9">>

RECURSIVE NatToStr(_)
NatToStr(n) ==
    IF n < 10 THEN <<Digits[n + 1]>>
    ELSE NatToStr(n \div 10) \o <<Digits[(n % 10) + 1]>>

\* str(n) for an int
IntToStr(n) == IF n < 0 THEN <<"-">> \o NatToStr(0 - n) ELSE NatToStr(n)

(***************************************************************************)
(* Utilities                                                               *)
(***************************************************************************)
EscapeCh(c) ==
    CASE c = "&" -> <<"&","a","m","p",";">>
      [] c = "<" -> <<"&","l","t",";">>
      [] c = ">" -> <<"&","g","t",";">>
      [] OTHER   -> <<c>>

\* escape_html(text): "" for a non-str, else &, < and > replaced
escape_html(v) ==
    IF ~IsStr(v) THEN <<>>
    ELSE Flatten([i \in 1..Len(v.s) |-> EscapeCh(v.s[i])])

\* _first_nonempty(*vals): the first str that is non-empty after strip()
\* (stripped), or number (as str), or {"@value": str} (stripped); else ""
RECURSIVE _first_nonempty(_)
_first_nonempty(vals) ==
    IF vals = <<>> THEN <<>>
    ELSE LET v == Head(vals) IN
         IF IsStr(v) /\ Strip(v.s) # <<>> THEN Strip(v.s)
         ELSE IF IsNum(v) THEN IntToStr(v.n)
         ELSE IF /\ IsDict(v)
                 /\ "@value" \in DOMAIN v.d
                 /\ IsStr(v.d["@value"])
                 /\ Strip(v.d["@value"].s) # <<>>
              THEN Strip(v.d["@value"].s)
         ELSE _first_nonempty(Tail(vals))

(***************************************************************************)
(* Field resolver                                                          *)
(***************************************************************************)
CanonFields ==
    {"entity_name", "contact_person", "email", "phone", "address_street",
     "address_city", "address_state", "address_postal_code", "hours",
     "map_embed_url", "google_maps_url", "latitude", "longitude", "website",
     "sameAs"}

FIELD_ALIASES ==
    [f \in CanonFields |->
        CASE f = "entity_name" ->
                <<"entity_name", "organization", "org_name", "company", "name">>
          [] f = "contact_person" ->
                <<"contact_person", "contact", "contact_name",
                  "primary_contact", "attention">>
          [] f = "email" ->
                <<"email", "contact_email", "email_address", "mail">>
          [] f = "phone" ->
                <<"phone", "telephone", "tel", "phone_number", "contact_number">>
          [] f = "address_street" ->
                <<"address_street", "streetAddress", "street", "address1",
                  "address_line_1", "address_line">>
          [] f = "address_city" -> <<"address_city", "city", "addressLocality">>
          [] f = "address_state" ->
                <<"address_state", "state", "addressRegion", "province">>
          [] f = "address_postal_code" ->
                <<"address_postal_code", "postalCode", "zip", "zipCode",
                  "postcode">>
          [] f = "hours" ->
                <<"hours", "openingHours", "opening_hours", "business_hours">>
          [] f = "map_embed_url" -> <<"map_embed_url", "map", "map_iframe">>
          [] f = "google_maps_url" ->
                <<"google_maps_url", "maps_url", "map_url">>
          [] f = "latitude" -> <<"geo_latitude", "latitude", "lat">>
          [] f = "longitude" -> <<"geo_longitude", "longitude", "lng", "lon">>
          [] f = "website" -> <<"website", "url", "homepage">>
          [] f = "sameAs" -> <<"sameAs", "same_as", "social", "social_links">>]

\* FIELD_ALIASES.get(canon_key, [])
AliasesOf(canon_key) ==
    IF canon_key \in CanonFields THEN FIELD_ALIASES[canon_key] ELSE <<>>

\* a test that takes 0 for an empty value
HitTruthy(d, k) == k \in DOMAIN d.d /\ Truthy(d.d[k])

\* k in d and (d[k] or d[k] == 0)
Hit(d, k) == k \in DOMAIN d.d /\ (Truthy(d.d[k]) \/ EqZero(d.d[k]))

\* the keys _alias_get tries at the top level, in the order it tries them
TryOrderCanonLast(canon_key) == AliasesOf(canon_key) \o <<canon_key>>
TryOrder(canon_key) == <<canon_key>> \o AliasesOf(canon_key)

\* a fallback that reads the phone of contactPoint before its telephone
NestedPhoneFirst(d, canon_key) ==
    LET geo == Or(Get(d, "geo"), Dict(<<>>))
        cp  == Or(Get(d, "contactPoint"), Get(d, "contact_point"))
    IN  IF canon_key \in {"latitude", "longitude"} /\ IsDict(geo)
        THEN Get(geo, canon_key)
        ELSE IF canon_key \in {"phone", "email"} /\ IsDict(cp)
        THEN IF canon_key = "phone"
             THEN Str(_first_nonempty(<<Get(cp, "phone"), Get(cp, "telephone")>>))
             ELSE Str(_first_nonempty(<<Get(cp, "email")>>))
        ELSE Null

\* the nested fallbacks of _alias_get: geo, then contactPoint
Nested(d, canon_key) ==
    LET geo == Or(Get(d, "geo"), Dict(<<>>))
        cp  == Or(Get(d, "contactPoint"), Get(d, "contact_point"))
    IN  IF canon_key \in {"latitude", "longitude"} /\ IsDict(geo)
        THEN Get(geo, canon_key)
        ELSE IF canon_key \in {"phone", "email"} /\ IsDict(cp)
        THEN IF canon_key = "phone"
             THEN Str(_first_nonempty(<<Get(cp, "telephone"), Get(cp, "phone")>>))
             ELSE Str(_first_nonempty(<<Get(cp, "email")>>))
        ELSE Null

\* _alias_get(d, canon_key); None is Null
_alias_get(d, canon_key) ==
    IF ~IsDict(d) THEN Null
    ELSE LET order == TryOrder(canon_key)
             hits  == {i \in 1..Len(order) : Hit(d, order[i])}
         IN  IF hits # {}
             THEN d.d[order[CHOOSE i \in hits : \A j \in hits : i <= j]]
             ELSE Nested(d, canon_key)

(***************************************************************************)
(* String literals of the source                                           *)
(***************************************************************************)
S_Site == <<"S","i","t","e">>
S_OurCompany == <<"O","u","r"," ","C","o","m","p","a","n","y">>
S_AboutUs == <<"A","b","o","u","t"," ","U","s">>
S_FaviconIco == <<"f","a","v","i","c","o","n",".","i","c","o">>
S_ContactUs == <<"C","o","n","t","a","c","t"," ","U","s">>
S_OurServices == <<"O","u","r"," ","S","e","r","v","i","c","e","s">>
S_Testimonials == <<"T","e","s","t","i","m","o","n","i","a","l","s">>
S_FAQ ==
    <<"F","r","e","q","u","e","n","t","l","y"," ","A","s","k","e","d"," ",
      "Q","u","e","s","t","i","o","n","s">>
S_HelpCenter == <<"H","e","l","p"," ","C","e","n","t","e","r">>
S_WelcomeTo == <<"W","e","l","c","o","m","e"," ","t","o"," ">>
S_Location == <<"L","o","c","a","t","i","o","n">>
S_Anonymous == <<"A","n","o","n","y","m","o","u","s">>
S_NoReviewText ==
    <<"N","o"," ","r","e","v","i","e","w"," ","t","e","x","t"," ","p","r",
      "o","v","i","d","e","d",".">>
MSG_Contact ==
    <<"C","o","n","t","a","c","t"," ","d","e","t","a","i","l","s"," ","a",
      "r","e"," ","n","o","t"," ","a","v","a","i","l","a","b","l","e"," ",
      "y","e","t",".">>
MSG_Services ==
    <<"N","o"," ","s","e","r","v","i","c","e","s"," ","h","a","v","e"," ",
      "b","e","e","n"," ","p","u","b","l","i","s","h","e","d"," ","y","e",
      "t",".">>
MSG_Faqs ==
    <<"N","o"," ","F","A","Q","s"," ","h","a","v","e"," ","b","e","e","n",
      " ","p","u","b","l","i","s","h","e","d"," ","y","e","t",".">>
MSG_Help ==
    <<"N","o"," ","h","e","l","p"," ","a","r","t","i","c","l","e","s"," ",
      "h","a","v","e"," ","b","e","e","n"," ","p","u","b","l","i","s","h",
      "e","d"," ","y","e","t",".">>
MSG_Testimonials ==
    <<"N","o"," ","t","e","s","t","i","m","o","n","i","a","l","s"," ","h",
      "a","v","e"," ","b","e","e","n"," ","p","u","b","l","i","s","h","e",
      "d"," ","y","e","t","."," ","C","h","e","c","k"," ","b","a","c","k",
      " ","s","o","o","n",".">>
EXT_json == <<"j","s","o","n">>
EXT_yaml == <<"y","a","m","l">>
EXT_yml == <<"y","m","l">>
EXT_md == <<"m","d">>
EXT_llm == <<"l","l","m">>

(***************************************************************************)
(* The schemas/ tree                                                       *)
(*                                                                         *)
(* A file is its name (stem and extension) and what parsing its bytes      *)
(* gives: blank (empty after strip()), bad (the parser raises), doc (the   *)
(* parsed payload) or, for markdown, text (its lines).  A directory is     *)
(* absent or lists its files in the order os.listdir / glob returns them.  *)
(***************************************************************************)
Blank      == [k |-> "blank"]
Bad        == [k |-> "bad"]
Doc(v)     == [k |-> "doc", v |-> v]
Text(ls)   == [k |-> "text", lines |-> ls]

FileOf(stem, ext, raw) == [stem |-> stem, ext |-> ext, raw |-> raw]

NoDir      == [exists |-> FALSE, list |-> <<>>]
DirOf(l)   == [exists |-> TRUE, list |-> l]

Lower(s) == [i \in 1..Len(s) |-> LowerCh(s[i])]

\* name.endswith((".json", ".yaml", ".yml"))
HasDataExt(ext) == ext \in {EXT_json, EXT_yaml, EXT_yml}

\* how a block of load_data ends: with a return, with an exception, or by
\* running off its end
Returns(v)   == [k |-> "return", v |-> v]
Raises       == [k |-> "raise"]
FallsThrough == [k |-> "fall"]

\* the try block of load_data: open() or read() raises for a path that
\* cannot be opened or decoded, the parser raises for content it cannot
\* parse, and a file of another type leaves the block without a return
TryBody(f) ==
    IF f.raw.k \in {"unopenable", "undecodable"} THEN Raises
    ELSE IF f.raw.k = "blank" THEN Returns(Lst(<<>>))
    ELSE IF HasDataExt(f.ext)
    THEN IF f.raw.k # "doc" THEN Raises
         ELSE LET data == Or(f.raw.v, Lst(<<>>))
              IN  Returns(IF IsList(data) THEN data ELSE Lst(<<data>>))
    ELSE FallsThrough

\* a try block without a handler: the exception leaves load_data
Uncaught(body) ==
    IF body.k = "fall" THEN Returns(Lst(<<>>)) ELSE body

\* except Exception: return []; after the block, return []
Caught(body) ==
    IF body.k = "return" THEN body ELSE Returns(Lst(<<>>))

\* load_data(filepath) as a call: how it ends
LoadCall(f) ==
    IF f.raw.k = "missing" THEN Returns(Lst(<<>>)) ELSE Caught(TryBody(f))

\* load_data(filepath): the list it returns
load_data(f) == LoadCall(f).v.l

\* the files of a directory a data-file filter keeps, in listing order;
\* lower is TRUE where the code lower-cases the name before the test
DataFiles(dir, lower) ==
    SelectSeq(dir.list,
              LAMBDA f : HasDataExt(IF lower THEN Lower(f.ext) ELSE f.ext))

(***************************************************************************)
(* Branding                                                                *)
(***************************************************************************)
OrgDirs == <<"organization", "organizations", "company", "entity", "business">>

\* the first element of a list of str that is not empty, else ""
RECURSIVE FirstNonEmptyStr(_)
FirstNonEmptyStr(l) ==
    IF l = <<>> THEN <<>>
    ELSE IF Head(l) # <<>> THEN Head(l) ELSE FirstNonEmptyStr(Tail(l))

\* the first record of the first list that is not empty, else None
RECURSIVE FirstLoaded(_)
FirstLoaded(lists) ==
    IF lists = <<>> THEN Null
    ELSE IF Head(lists) # <<>> THEN Head(lists)[1] ELSE FirstLoaded(Tail(lists))

LoadAll(fl) == [i \in 1..Len(fl) |-> load_data(fl[i])]

\* _load_first_yaml_json(path_glob): the first record of the first file
\* that loads to something, else None
_load_first_yaml_json(dir) == FirstLoaded(LoadAll(DataFiles(dir, TRUE)))

\* the directories _discover_entity_name_from_other_schemas probes, in order
Probes(tree) ==
    [i \in 1..Len(OrgDirs) |-> tree.org[i]]
        \o <<tree.reviews, tree.services, tree.locations>>

\* the name candidate of a probed object, "" where the probe is skipped
CandidateName(obj) ==
    IF ~Truthy(obj) \/ ~IsDict(obj) THEN <<>>
    ELSE _first_nonempty(<<Get(obj, "entity_name"), Get(obj, "name"),
                           Get(obj, "legal_name"), Get(obj, "brand"),
                           Get(obj, "company"), Get(obj, "organization"),
                           Get(obj, "site_title")>>)

ProbeNames(ps) == [i \in 1..Len(ps) |-> CandidateName(_load_first_yaml_json(ps[i]))]

\* _discover_entity_name_from_other_schemas(); None is ""
_discover_entity_name_from_other_schemas(tree) ==
    FirstNonEmptyStr(ProbeNames(Probes(tree)))

\* repo_slug.split("/", 1)[-1].replace("-", " ").title()
RepoName(slug) == Title(ReplaceCh(AfterFirst(slug, "/"), "-", " "))

\* org_file of load_org_meta: the first data file of the first candidate
\* directory that has one; found is FALSE when there is none
RECURSIVE OrgFile(_)
OrgFile(dirs) ==
    IF dirs = <<>> THEN [found |-> FALSE]
    ELSE IF Head(dirs).exists /\ DataFiles(Head(dirs), TRUE) # <<>>
    THEN [found |-> TRUE, file |-> DataFiles(Head(dirs), TRUE)[1]]
    ELSE OrgFile(Tail(dirs))

\* org = data[0] if isinstance(data, list) else data, in load_org_meta:
\* data is always a list, and data[0] of an empty one is an IndexError
OrgRecord(data) ==
    [raised |-> data = <<>>, org |-> IF data = <<>> THEN Null ELSE data[1]]

\* org of load_org_meta, with raised TRUE when reading it is an IndexError
LoadOrg(picked) ==
    IF picked.found THEN OrgRecord(load_data(picked.file))
    ELSE [raised |-> FALSE, org |-> Null]

\* the name, logo and favicon load_org_meta takes from org
OrgOwn(org) ==
    IF IsDict(org)
    THEN [name    |-> _first_nonempty(<<Get(org, "entity_name"), Get(org, "name"),
                                        Get(org, "legal_name"), Get(org, "brand"),
                                        Get(org, "site_title")>>),
          logo    |-> _first_nonempty(<<Get(org, "logo_url"), Get(org, "logo")>>),
          favicon |-> _first_nonempty(<<Get(org, "favicon"), Get(org, "favicon_url")>>)]
    ELSE [name |-> <<>>, logo |-> <<>>, favicon |-> <<>>]

\* the last two name sources: the repository slug, then "Site"
SlugOrSite(name, slug) ==
    IF name # <<>> THEN name
    ELSE IF slug # <<>> THEN RepoName(slug) ELSE S_Site

\* the name sources of load_org_meta after the organization's own name
NameOf(own, tree, slug) ==
    IF own # <<>> THEN own
    ELSE SlugOrSite(_discover_entity_name_from_other_schemas(tree), slug)

MetaOf(got, own, tree, slug) ==
    [raised  |-> got.raised,
     name    |-> NameOf(own.name, tree, slug),
     logo    |-> own.logo,
     favicon |-> own.favicon]

MetaFrom(got, tree, slug) == MetaOf(got, OrgOwn(got.org), tree, slug)

\* load_org_meta(): raised is TRUE when it ends in an IndexError
load_org_meta(tree, slug) == MetaFrom(LoadOrg(OrgFile(tree.org)), tree, slug)

(***************************************************************************)
(* Page shell and target files                                             *)
(***************************************************************************)
SiteName(meta) == IF meta.name # <<>> THEN meta.name ELSE S_Site

\* a shell that also shows the build time in the page heading
PageOfStamped(site_name, title, favicon, content, stamp) ==
    [page_title |-> <<escape_html(Str(site_name)), escape_html(Str(title))>>,
     app_name   |-> escape_html(Str(site_name)),
     favicon    |-> escape_html(Str(favicon)),
     h1         |-> escape_html(Str(title \o <<" ">> \o NatToStr(stamp))),
     content    |-> content,
     footer     |-> stamp]

\* the page for a site name, a title that is not empty and a favicon
PageOf(site_name, title, favicon, content, stamp) ==
    [page_title |-> <<escape_html(Str(site_name)), escape_html(Str(title))>>,
     app_name   |-> escape_html(Str(site_name)),
     favicon    |-> escape_html(Str(favicon)),
     h1         |-> escape_html(Str(title)),
     content    |-> content,
     footer     |-> stamp]

\* the page for an empty title
UntitledPageOf(site_name, favicon, content, stamp) ==
    [page_title |-> <<escape_html(Str(site_name))>>,
     app_name   |-> escape_html(Str(site_name)),
     favicon    |-> escape_html(Str(favicon)),
     h1         |-> escape_html(Str(site_name)),
     content    |-> content,
     footer     |-> stamp]

\* generate_page(title, content), given that load_org_meta returned meta:
\* the parts of the page that vary; stamp stands for the footer's year and
\* "Last updated" time
generate_page(meta, title, content, stamp) ==
    IF title # <<>>
    THEN PageOf(SiteName(meta), title,
                IF meta.favicon # <<>> THEN meta.favicon ELSE S_FaviconIco,
                content, stamp)
    ELSE UntitledPageOf(SiteName(meta),
                        IF meta.favicon # <<>> THEN meta.favicon ELSE S_FaviconIco,
                        content, stamp)

AbsentFile      == [kind |-> "absent"]
EmptyFile(t)    == [kind |-> "empty", mtime |-> t]
PageFile(p, t)  == [kind |-> "page", mtime |-> t, page |-> p]

\* f.write(generate_page(title, content)) into the file just opened
WriteWith(meta, title, content, now) ==
    IF meta.raised THEN EmptyFile(now)
    ELSE PageFile(generate_page(meta, title, content, now), now)

\* with open(filename, "w") as f: f.write(generate_page(title, content)):
\* the file is created (truncated) before generate_page is evaluated
OpenAndWrite(tree, slug, title, content, now) ==
    WriteWith(load_org_meta(tree, slug), title, content, now)

\* what a generator did: how is "true" or "false" (the value returned),
\* "raise" (an Exception left it) or "exit" (sys.exit(1)); write tells
\* whether it opened its target, file is the target afterwards
Outcome(how, write, file) == [how |-> how, write |-> write, file |-> file]

Placeholder(message) == [kind |-> "placeholder", text |-> escape_html(Str(message))]

PlaceholderOutcome(f) == Outcome(IF f.kind = "page" THEN "true" ELSE "false", TRUE, f)

\* _write_placeholder_page(filename, title, message)
_write_placeholder_page(tree, slug, title, message, now) ==
    PlaceholderOutcome(OpenAndWrite(tree, slug, title, Placeholder(message), now))

RealOutcome(f) == Outcome(IF f.kind = "page" THEN "true" ELSE "raise", TRUE, f)

\* the tail of a generator that found records: write the page, return True
WriteReal(tree, slug, title, content, now) ==
    RealOutcome(OpenAndWrite(tree, slug, title, content, now))

Raise == Outcome("raise", FALSE, AbsentFile)
Exit  == Outcome("exit", FALSE, AbsentFile)

(***************************************************************************)
(* File names and their order                                              *)
(***************************************************************************)
\* the characters of the model in code-point order
Ascii ==
    <<"\t", "\n", " ", "&", "'", ",", "-", ".", "/",
      "0","1","2","3","4","5","6","7","8","9", ":", ";", "<", ">", "@">>
    \o UpperAlpha \o <<"_">> \o LowerAlpha

Code(c) == CHOOSE i \in 1..Len(Ascii) : Ascii[i] = c

\* a < b for str
RECURSIVE StrLess(_, _)
StrLess(a, b) ==
    IF b = <<>> THEN FALSE
    ELSE IF a = <<>> THEN TRUE
    ELSE IF Head(a) = Head(b) THEN StrLess(Tail(a), Tail(b))
    ELSE Code(Head(a)) < Code(Head(b))

FileName(f) == f.stem \o <<".">> \o f.ext

RECURSIVE InsertFile(_, _)
InsertFile(f, l) ==
    IF l = <<>> THEN <<f>>
    ELSE IF StrLess(FileName(f), FileName(Head(l))) THEN <<f>> \o l
    ELSE <<Head(l)>> \o InsertFile(f, Tail(l))

\* sorted(os.listdir(d))
RECURSIVE SortedFiles(_)
SortedFiles(l) ==
    IF l = <<>> THEN <<>> ELSE InsertFile(Head(l), SortedFiles(Tail(l)))

\* the records of all the files of a list, file after file
Records(fl) == Flatten([i \in 1..Len(fl) |-> load_data(fl[i])])

(***************************************************************************)
(* List, title, description, price and bullet helpers                      *)
(***************************************************************************)
S_None == <<"N","o","n","e">>
S_service == <<"s","e","r","v","i","c","e">>
S_item == <<"i","t","e","m">>
S_entry == <<"e","n","t","r","y">>
S_unnamed_service ==
    <<"u","n","n","a","m","e","d"," ","s","e","r","v","i","c","e">>
S_untitled == <<"u","n","t","i","t","l","e","d">>
S_n_a == <<"n","/","a">>
S_na == <<"n","a">>
S_tbd == <<"t","b","d">>
S_ServiceAreas ==
    <<"S","e","r","v","i","c","e"," ","a","r","e","a","s",":"," ">>
S_ContactForPricing ==
    <<"C","o","n","t","a","c","t"," ","f","o","r"," ","p","r","i","c","i",
      "n","g">>

\* sep.join(parts)
RECURSIVE Join(_, _)
Join(sep, parts) ==
    IF parts = <<>> THEN <<>>
    ELSE IF Len(parts) = 1 THEN parts[1]
    ELSE parts[1] \o sep \o Join(sep, Tail(parts))

\* s.split(sep) for a one-character sep
RECURSIVE Split(_, _)
Split(s, sep) ==
    IF \A i \in 1..Len(s) : s[i] # sep THEN <<s>>
    ELSE LET k == CHOOSE i \in 1..Len(s) :
                    s[i] = sep /\ \A j \in 1..(i - 1) : s[j] # sep
         IN  <<SubSeq(s, 1, k - 1)>> \o Split(SubSeq(s, k + 1, Len(s)), sep)

\* l[:n]
Take(l, n) == SubSeq(l, 1, IF Len(l) < n THEN Len(l) ELSE n)

\* str(x): a str itself, an int in decimal, None as "None"; of a list or a
\* dict only the brackets are kept
PyStr(v) ==
    CASE v.t = "str"  -> v.s
      [] v.t = "num"  -> IntToStr(v.n)
      [] v.t = "null" -> S_None
      [] v.t = "list" -> <<"[", "]">>
      [] v.t = "dict" -> <<"{", "}">>

\* _as_list(val)
_as_list(val) ==
    IF IsList(val)
    THEN SelectSeq([i \in 1..Len(val.l) |-> Strip(PyStr(val.l[i]))],
                   LAMBDA x : x # <<>>)
    ELSE IF IsStr(val) /\ Strip(val.s) # <<>>
    THEN LET parts == Split(val.s, ",")
         IN  SelectSeq([i \in 1..Len(parts) |-> Strip(parts[i])],
                       LAMBDA x : x # <<>>)
    ELSE <<>>

IsDigitCh(c) == \E i \in 1..10 : Digits[i] = c

StartsWith(s, p) == Len(s) >= Len(p) /\ SubSeq(s, 1, Len(p)) = p

\* re.fullmatch(r"(service|item|entry)\s*\d+", t)
NumberedPlaceholder(t) ==
    \E p \in {S_service, S_item, S_entry} :
        /\ StartsWith(t, p)
        /\ LET rest == LStrip(SubSeq(t, Len(p) + 1, Len(t)))
           IN  rest # <<>> /\ \A i \in 1..Len(rest) : IsDigitCh(rest[i])

\* a test that knows the fixed placeholder words only
_is_placeholder_title_words(text) ==
    IF ~IsStr(text) \/ Strip(text.s) = <<>> THEN TRUE
    ELSE Lower(Strip(text.s)) \in {S_service, S_unnamed_service, S_untitled,
                                   S_n_a, S_na, S_tbd}

\* _is_placeholder_title(text)
_is_placeholder_title(text) ==
    IF ~IsStr(text) \/ Strip(text.s) = <<>> THEN TRUE
    ELSE LET t == Lower(Strip(text.s))
         IN  \/ t \in {S_service, S_unnamed_service, S_untitled, S_n_a, S_na, S_tbd}
             \/ NumberedPlaceholder(t)

\* os.path.splitext(os.path.basename(path))[0]: a name of dots only, or one
\* whose only dot is the first character, has no extension
BaseName(f) ==
    IF \A i \in 1..Len(f.stem) : f.stem[i] = "." THEN FileName(f) ELSE f.stem

\* _title_from_filename(path)
_title_from_filename(f) ==
    Title(Strip(ReplaceCh(ReplaceCh(BaseName(f), "-", " "), "_", " ")))

GetAll(obj, keys) == [i \in 1..Len(keys) |-> Get(obj, keys[i])]

\* _guess_description(obj)
_guess_description(obj) ==
    _first_nonempty(GetAll(obj, <<"description", "summary", "details", "body",
                                  "content", "answer", "copy">>))

\* _guess_price(obj)
_guess_price(obj) ==
    LET p == _first_nonempty(GetAll(obj, <<"price", "price_range",
                                           "starting_price", "min_price",
                                           "cost", "fee">>))
    IN  IF p # <<>> THEN p ELSE S_ContactForPricing

\* a or b or c ... over the values of keys: the first truthy one, else the last
RECURSIVE OrAll(_)
OrAll(vals) ==
    IF Len(vals) = 1 THEN vals[1]
    ELSE IF Truthy(vals[1]) THEN vals[1] ELSE OrAll(Tail(vals))

\* a de-duplication loop that compares the bullets as written
RECURSIVE UniqExact(_, _)
UniqExact(bullets, seen) ==
    IF bullets = <<>> THEN <<>>
    ELSE IF Head(bullets) \in seen THEN UniqExact(Tail(bullets), seen)
    ELSE <<Head(bullets)>> \o UniqExact(Tail(bullets), seen \cup {Head(bullets)})

\* the de-duplication loop of _bullet_points: first occurrence kept,
\* compared by lower()
RECURSIVE Uniq(_, _)
Uniq(bullets, seen) ==
    IF bullets = <<>> THEN <<>>
    ELSE IF Lower(Head(bullets)) \in seen THEN Uniq(Tail(bullets), seen)
    ELSE <<Head(bullets)>> \o Uniq(Tail(bullets), seen \cup {Lower(Head(bullets))})

\* _bullet_points(obj)
_bullet_points(obj) ==
    LET feats == _as_list(OrAll(GetAll(obj, <<"features", "benefits", "highlights">>)))
        specs == _as_list(OrAll(GetAll(obj, <<"specialties", "capabilities">>)))
        areas == _as_list(OrAll(GetAll(obj, <<"service_areas", "areas",
                                              "locations_served">>)))
        first == IF Take(feats, 3) # <<>> THEN Take(feats, 3) ELSE Take(specs, 3)
        all   == IF areas # <<>>
                 THEN Append(first, S_ServiceAreas \o Join(<<",", " ">>, Take(areas, 5)))
                 ELSE first
    IN  Take(Uniq(all, {}), 4)

IsAlnumCh(c) == IsAlphaCh(c) \/ IsDigitCh(c)

\* re.sub(r'[\s]+', '-', text): each run of whitespace becomes one hyphen
RECURSIVE Hyphenate(_)
Hyphenate(s) ==
    IF s = <<>> THEN <<>>
    ELSE IF Head(s) \in Whitespace THEN <<"-">> \o Hyphenate(LStrip(s))
    ELSE <<Head(s)>> \o Hyphenate(Tail(s))

\* slugify(text) for a str
slugify(text) ==
    IF text = <<>> THEN S_item
    ELSE LET kept == SelectSeq(text, LAMBDA c : IsAlnumCh(c) \/ c \in Whitespace \/ c = "-")
             slug == Hyphenate(Lower(Strip(kept)))
         IN  IF slug # <<>> THEN slug ELSE S_item

(***************************************************************************)
(* Page assemblers                                                         *)
(***************************************************************************)
ContentDirs == <<"services", "locations", "reviews", "faqs", "help-articles">>

DirNamed(tree, d) ==
    CASE d = "services"      -> tree.services
      [] d = "locations"     -> tree.locations
      [] d = "reviews"       -> tree.reviews
      [] d = "faqs"          -> tree.faqs
      [] d = "help-articles" -> tree.help

\* the files os.walk("schemas") finds that the home page lists
DirLinks(name, dir) ==
    {[dir |-> name, name |-> FileName(dir.list[j])] :
        j \in {j \in 1..Len(dir.list) :
                 dir.list[j].ext \in {EXT_json, EXT_yaml, EXT_yml, EXT_md, EXT_llm}}}

WalkLinks(tree) ==
    UNION {DirLinks(OrgDirs[i], tree.org[i]) : i \in 1..Len(OrgDirs)}
    \cup
    UNION {DirLinks(ContentDirs[i], DirNamed(tree, ContentDirs[i])) :
              i \in 1..Len(ContentDirs)}

IndexWith(meta, tree, slug, now) ==
    IF meta.raised THEN Raise
    ELSE IF slug = <<>> THEN Exit
    ELSE RealOutcome(WriteWith(meta, S_WelcomeTo \o SiteName(meta),
                               [kind |-> "index", base |-> slug,
                                links |-> WalkLinks(tree)],
                               now))

\* generate_index_page(): load_org_meta runs at its top and again in
\* generate_page, on the same tree
generate_index_page(tree, slug, now) ==
    IndexWith(load_org_meta(tree, slug), tree, slug, now)

\* int(x) / float(x) of a record value: a number, or a str of digits
\* (surrounding whitespace allowed); ok is FALSE where Python raises
RECURSIVE DigitsToNat(_)
DigitsToNat(s) ==
    IF s = <<>> THEN 0
    ELSE 10 * DigitsToNat(SubSeq(s, 1, Len(s) - 1))
         + ((CHOOSE i \in 1..10 : Digits[i] = s[Len(s)]) - 1)

ToNumber(v) ==
    IF IsNum(v) THEN [ok |-> TRUE, n |-> v.n]
    ELSE IF /\ IsStr(v)
            /\ Strip(v.s) # <<>>
            /\ \A i \in 1..Len(Strip(v.s)) : IsDigitCh(Strip(v.s)[i])
    THEN [ok |-> TRUE, n |-> DigitsToNat(Strip(v.s))]
    ELSE [ok |-> FALSE, n |-> 0]

\* round(a / b) for b > 0: Python rounds a half to the even neighbour
RoundDiv(a, b) ==
    LET q == a \div b
        r == a % b
    IN  IF 2 * r < b THEN q
        ELSE IF 2 * r > b THEN q + 1
        ELSE IF q % 2 = 0 THEN q ELSE q + 1

RECURSIVE SumSeq(_)
SumSeq(l) == IF l = <<>> THEN 0 ELSE Head(l) + SumSeq(Tail(l))

\* sorted(set_of_str)
RECURSIVE SortedStrs(_)
SortedStrs(S) ==
    IF S = {} THEN <<>>
    ELSE LET m == CHOOSE x \in S : \A y \in S : ~StrLess(y, x)
         IN  <<m>> \o SortedStrs(S \ {m})

Dicts(l) == SelectSeq(l, LAMBDA x : IsDict(x))

SeqToSet(l) == {l[i] : i \in 1..Len(l)}

\* escape_html over the items of a list of str
EscapeAll(l) == [i \in 1..Len(l) |-> escape_html(Str(l[i]))]

\* a count that takes every mapping record as one service
AboutServiceCountFlat(tree) ==
    Len(Dicts(Records(DataFiles(tree.services, FALSE))))

\* the records generate_about_page counts as services
AboutServiceCount(tree) ==
    LET recs == Dicts(Records(DataFiles(tree.services, FALSE)))
        n(r) == IF IsList(Get(r, "services"))
                THEN Len(Dicts(Get(r, "services").l)) ELSE 1
    IN  SumSeq([i \in 1..Len(recs) |-> n(recs[i])])

\* the first non-empty value of a field over records, in order
RECURSIVE FirstOver(_, _)
FirstOver(recs, field) ==
    IF recs = <<>> THEN <<>>
    ELSE LET x == _first_nonempty(<<_alias_get(Head(recs), field)>>)
         IN  IF x # <<>> THEN x ELSE FirstOver(Tail(recs), field)

\* the "Facts at a Glance" of generate_about_page
AboutFacts(tree) ==
    LET locs    == Dicts(Records(DataFiles(tree.locations, FALSE)))
        revs    == Dicts(Records(DataFiles(tree.reviews, FALSE)))
        rated   == SelectSeq([i \in 1..Len(revs) |-> ToNumber(Get(revs[i], "rating"))],
                             LAMBDA x : x.ok /\ x.n > 0)
        total   == SumSeq([i \in 1..Len(rated) |-> rated[i].n])
        stars   == IF rated = <<>> THEN 0 ELSE RoundDiv(total, Len(rated))
        areas   == UNION {SeqToSet(_as_list(Or(Get(locs[i], "service_areas"),
                                               Get(locs[i], "areas")))) :
                          i \in 1..Len(locs)}
    IN  [services |-> AboutServiceCount(tree),
         rated    |-> Len(rated),
         total    |-> total,
         filled   |-> stars,
         hollow   |-> IF 5 - stars > 0 THEN 5 - stars ELSE 0,
         areas    |-> escape_html(Str(Join(<<",", " ">>, Take(SortedStrs(areas), 8)))),
         phone    |-> escape_html(Str(FirstOver(locs, "phone"))),
         email    |-> escape_html(Str(FirstOver(locs, "email")))]

\* generate_about_page()
generate_about_page(tree, slug, now) ==
    LET dirs   == {i \in 1..Len(OrgDirs) : tree.org[i].exists}
        cand   == IF dirs = {} THEN <<>>
                  ELSE DataFiles(tree.org[CHOOSE i \in dirs : \A j \in dirs : i <= j],
                                 FALSE)
        data   == IF cand = <<>> THEN <<>> ELSE load_data(cand[1])
        picked == IF data = <<>> THEN Null ELSE data[1]
        fallback_name == IF slug # <<>> THEN RepoName(slug) ELSE S_OurCompany
        org    == IF Truthy(picked) THEN picked
                  ELSE Dict([entity_name |-> Str(fallback_name),
                             name        |-> Str(fallback_name),
                             description |-> Str(<<>>),
                             mission     |-> Str(<<>>),
                             vision      |-> Str(<<>>),
                             logo_url    |-> Str(<<>>),
                             website     |-> Str(<<>>)])
    IN  IF ~IsDict(org) THEN Raise
        ELSE LET named == _first_nonempty(<<Get(org, "entity_name"), Get(org, "name")>>)
                 display_name == IF named # <<>> THEN named ELSE S_AboutUs
                 desc == _first_nonempty(<<Get(org, "description")>>)
             IN  WriteReal(tree, slug, display_name,
                    [kind    |-> "about",
                     logo    |-> escape_html(Str(_first_nonempty(<<Get(org, "logo_url"),
                                                                   Get(org, "logo")>>))),
                     own_desc |-> desc # <<>>,
                     desc    |-> escape_html(Str(IF desc # <<>> THEN desc ELSE display_name)),
                     facts   |-> AboutFacts(tree),
                     has_mission |-> Truthy(Get(org, "mission")),
                     mission |-> escape_html(Get(org, "mission")),
                     has_vision |-> Truthy(Get(org, "vision")),
                     vision  |-> escape_html(Get(org, "vision")),
                     website |-> escape_html(Str(_first_nonempty(<<Get(org, "website"),
                                                                   Get(org, "url")>>))),
                     same_as |-> EscapeAll(Take(_as_list(Or(Get(org, "sameAs"),
                                                            Get(org, "same_as"))), 12))],
                    now)

\* a resolver that goes from a rejected candidate straight to the file name
_guess_title_no_keywords(obj, f) ==
    LET first == _first_nonempty(GetAll(obj, <<"title", "service_name", "name",
                                               "headline", "service", "offering",
                                               "product_name", "category", "subtype",
                                               "type", "label">>))
    IN  IF _is_placeholder_title(Str(first)) THEN _title_from_filename(f) ELSE first

\* _guess_title(obj, filename) of generate_services_page
_guess_title(obj, f) ==
    LET first == _first_nonempty(GetAll(obj, <<"title", "service_name", "name",
                                               "headline", "service", "offering",
                                               "product_name", "category", "subtype",
                                               "type", "label">>))
        kws   == _as_list(Get(obj, "keywords"))
        second == IF _is_placeholder_title(Str(first)) /\ kws # <<>>
                  THEN Title(Join(<<" ", "/", " ">>, Take(kws, 2)))
                  ELSE first
    IN  IF _is_placeholder_title(Str(second)) THEN _title_from_filename(f) ELSE second

\* the records of a services file after one level of expansion
Expanded(recs) ==
    Flatten([i \in 1..Len(recs) |->
                IF IsDict(recs[i]) /\ IsList(Get(recs[i], "services"))
                THEN Get(recs[i], "services").l ELSE <<recs[i]>>])

\* one service card
ServiceCard(svc, f) ==
    LET title == _guess_title(svc, f)
        slug  == Or(Get(svc, "slug"), Str(slugify(title)))
    IN  [title       |-> escape_html(Str(title)),
         featured    |-> Truthy(Or(Get(svc, "featured"), Get(svc, "is_featured"))),
         description |-> escape_html(Str(_guess_description(svc))),
         bullets     |-> EscapeAll(_bullet_points(svc)),
         price       |-> escape_html(Str(_guess_price(svc))),
         id          |-> escape_html(slug),
         permalink   |-> PyStr(slug)]

ServiceCards(tree) ==
    LET fl == SelectSeq(SortedFiles(DataFiles(tree.services, FALSE)),
                        LAMBDA f : load_data(f) # <<>>)
        of(f) == LET svcs == Dicts(Expanded(load_data(f)))
                 IN  [i \in 1..Len(svcs) |-> ServiceCard(svcs[i], f)]
    IN  Flatten([i \in 1..Len(fl) |-> of(fl[i])])

ServicesWith(cards, tree, slug, now) ==
    IF ~tree.services.exists \/ cards = <<>>
    THEN _write_placeholder_page(tree, slug, S_OurServices, MSG_Services, now)
    ELSE WriteReal(tree, slug, S_OurServices, [kind |-> "cards", items |-> cards], now)

\* generate_services_page()
generate_services_page(tree, slug, now) ==
    ServicesWith(ServiceCards(tree), tree, slug, now)

\* one testimonial
Testimonial(rev) ==
    LET given  == IF "rating" \in DOMAIN rev.d THEN ToNumber(rev.d["rating"])
                  ELSE [ok |-> TRUE, n |-> 5]
        rating == IF given.ok THEN given.n ELSE 5
        stars  == IF rating < 1 THEN 1 ELSE IF rating > 5 THEN 5 ELSE rating
    IN  [quote  |-> escape_html(OrAll(<<Get(rev, "review_body"), Get(rev, "quote"),
                                        Get(rev, "review_title"), Str(S_NoReviewText)>>)),
         author |-> escape_html(OrAll(<<Get(rev, "customer_name"), Get(rev, "author"),
                                        Str(S_Anonymous)>>)),
         has_entity |-> Truthy(Get(rev, "entity_name")),
         entity |-> escape_html(Get(rev, "entity_name")),
         has_date |-> Truthy(Get(rev, "date")),
         date   |-> escape_html(Get(rev, "date")),
         filled |-> stars,
         hollow |-> 5 - stars]

\* generate_testimonials_page()
generate_testimonials_page(tree, slug, now) ==
    LET revs  == Dicts(Records(DataFiles(tree.reviews, FALSE)))
        items == [i \in 1..Len(revs) |-> Testimonial(revs[i])]
    IN  WriteReal(tree, slug, S_Testimonials,
                  IF items = <<>>
                  THEN [kind |-> "placeholder", text |-> escape_html(Str(MSG_Testimonials))]
                  ELSE [kind |-> "cards", items |-> items],
                  now)


\* a question or answer taken as written, blanks kept
StrippedRaw(item, key) ==
    IF ~IsDict(item) THEN [ok |-> FALSE, s |-> <<>>]
    ELSE LET v == Get(item, key)
         IN  IF ~Truthy(v) THEN [ok |-> TRUE, s |-> <<>>]
             ELSE IF IsStr(v) THEN [ok |-> TRUE, s |-> v.s]
             ELSE [ok |-> FALSE, s |-> <<>>]

\* (item.get(key) or '').strip(): ok is FALSE where it raises
Stripped(item, key) ==
    IF ~IsDict(item) THEN [ok |-> FALSE, s |-> <<>>]
    ELSE LET v == Get(item, key)
         IN  IF ~Truthy(v) THEN [ok |-> TRUE, s |-> <<>>]
             ELSE IF IsStr(v) THEN [ok |-> TRUE, s |-> Strip(v.s)]
             ELSE [ok |-> FALSE, s |-> <<>>]

\* TRUE when the item loop of generate_faq_page raises: an item without
\* .get, or a question or answer that is truthy and has no .strip
FaqRaises(recs) ==
    \E i \in 1..Len(recs) :
        ~Stripped(recs[i], "question").ok \/ ~Stripped(recs[i], "answer").ok

FaqItems(recs) ==
    [i \in 1..Len(recs) |->
        [question |-> escape_html(Str(Stripped(recs[i], "question").s)),
         answer   |-> escape_html(Str(Stripped(recs[i], "answer").s))]]

FaqWith(recs, tree, slug, now) ==
    IF ~tree.faqs.exists
    THEN _write_placeholder_page(tree, slug, S_FAQ, MSG_Faqs, now)
    ELSE IF FaqRaises(recs) THEN Raise
    ELSE IF \A i \in 1..Len(recs) : Stripped(recs[i], "question").s = <<>>
    THEN _write_placeholder_page(tree, slug, S_FAQ, MSG_Faqs, now)
    ELSE WriteReal(tree, slug, S_FAQ,
                   [kind  |-> "cards",
                    items |-> FaqItems(SelectSeq(recs,
                                 LAMBDA x : Stripped(x, "question").s # <<>>))],
                   now)

\* generate_faq_page()
generate_faq_page(tree, slug, now) ==
    FaqWith(Records(DataFiles(tree.faqs, FALSE)), tree, slug, now)

S_dashes == <<"-","-","-">>
S_title_colon == <<"t","i","t","l","e",":">>
S_dot_md == <<".","m","d">>

\* s.replace(sub, "") for a non-empty sub
RECURSIVE RemoveAll(_, _)
RemoveAll(s, sub) ==
    IF s = <<>> THEN <<>>
    ELSE IF StartsWith(s, sub) THEN RemoveAll(SubSeq(s, Len(sub) + 1, Len(s)), sub)
    ELSE <<Head(s)>> \o RemoveAll(Tail(s), sub)

\* the front-matter loop of generate_help_articles_page over the lines left,
\* from the state st = [in_fm, done, title, body]
RECURSIVE FrontMatter(_, _)
FrontMatter(lines, st) ==
    IF lines = <<>> THEN st
    ELSE LET line == Head(lines) IN
         IF Strip(line) = S_dashes /\ ~st.done
         THEN FrontMatter(Tail(lines),
                          IF ~st.in_fm THEN [st EXCEPT !.in_fm = TRUE]
                          ELSE [st EXCEPT !.in_fm = FALSE, !.done = TRUE])
         ELSE IF st.in_fm /\ ~st.done
         THEN FrontMatter(Tail(lines),
                          IF StartsWith(Lower(line), S_title_colon)
                          THEN [st EXCEPT !.title = Strip(AfterFirst(line, ":"))]
                          ELSE st)
         ELSE FrontMatter(Tail(lines), [st EXCEPT !.body = Append(@, line)])

\* one body line as HTML
HelpLine(line) ==
    IF StartsWith(line, <<"#", "#", " ">>)
    THEN [tag |-> "h2", text |-> escape_html(Str(SubSeq(line, 4, Len(line))))]
    ELSE IF StartsWith(line, <<"#", " ">>)
    THEN [tag |-> "h1", text |-> escape_html(Str(SubSeq(line, 3, Len(line))))]
    ELSE IF StartsWith(line, <<"-", " ">>) \/ StartsWith(line, <<"*", " ">>)
    THEN [tag |-> "bullet", text |-> escape_html(Str(SubSeq(line, 3, Len(line))))]
    ELSE IF Strip(line) = <<>>
    THEN [tag |-> "br", text |-> <<>>]
    ELSE [tag |-> "p", text |-> escape_html(Str(line))]

\* one help article
HelpArticle(f) ==
    LET parsed == FrontMatter(IF f.raw.k = "text" THEN f.raw.lines ELSE <<>>,
                              [in_fm |-> FALSE, done |-> FALSE,
                               title |-> <<>>, body |-> <<>>])
        title  == IF parsed.title # <<>> THEN parsed.title
                  ELSE Title(ReplaceCh(RemoveAll(FileName(f), S_dot_md), "-", " "))
    IN  [title |-> escape_html(Str(title)),
         body  |-> [i \in 1..Len(parsed.body) |-> HelpLine(parsed.body[i])]]

\* generate_help_articles_page()
generate_help_articles_page(tree, slug, now) ==
    LET files_found == SelectSeq(tree.help.list, LAMBDA f : f.ext = EXT_md)
    IN  IF ~tree.help.exists \/ files_found = <<>>
        THEN _write_placeholder_page(tree, slug, S_HelpCenter, MSG_Help, now)
        ELSE WriteReal(tree, slug, S_HelpCenter,
                       [kind  |-> "cards",
                        items |-> [i \in 1..Len(files_found) |->
                                      HelpArticle(files_found[i])]],
                       now)

(***************************************************************************)
(* Composite synthesizers: address, hours, map link                        *)
(***************************************************************************)
NonEmpty(parts) == SelectSeq(parts, LAMBDA x : x # <<>>)

\* an address line that puts the comma between city and state whether or
\* not they are there
AddressLineComma(line1, line2, city, state, zipc) ==
    Strip(Join(<<" ">>,
               NonEmpty(<<line1, line2, city \o <<",", " ">> \o state, zipc>>)))

\* " ".join of line1, line2, "city, state" and zip, the empty ones left
\* out, stripped
AddressLine(line1, line2, city, state, zipc) ==
    Strip(Join(<<" ">>,
               NonEmpty(<<line1, line2,
                          Join(<<",", " ">>, NonEmpty(<<city, state>>)),
                          zipc>>)))

\* _format_address_from_components(loc)
_format_address_from_components(loc) ==
    AddressLine(_first_nonempty(<<_alias_get(loc, "address_street")>>),
                _first_nonempty(<<Get(loc, "address2"), Get(loc, "address_line_2"),
                                  Get(loc, "suite")>>),
                _first_nonempty(<<_alias_get(loc, "address_city")>>),
                _first_nonempty(<<_alias_get(loc, "address_state")>>),
                _first_nonempty(<<_alias_get(loc, "address_postal_code")>>))

\* _format_address(addr, loc)
_format_address(addr, loc) ==
    IF IsStr(addr) /\ Strip(addr.s) # <<>> THEN Strip(addr.s)
    ELSE IF IsDict(addr)
    THEN AddressLine(_first_nonempty(<<Get(addr, "streetAddress"), Get(addr, "address1"),
                                       Get(addr, "addressLine1")>>),
                     _first_nonempty(<<Get(addr, "address2"), Get(addr, "addressLine2"),
                                       Get(addr, "suite")>>),
                     _first_nonempty(<<Get(addr, "addressLocality"), Get(addr, "city")>>),
                     _first_nonempty(<<Get(addr, "addressRegion"), Get(addr, "state")>>),
                     _first_nonempty(<<Get(addr, "postalCode"), Get(addr, "zip"),
                                       Get(addr, "zipCode")>>))
    ELSE _format_address_from_components(loc)

\* the characters written for the dashes of an hours row
EmDash == "emdash"
EnDash == "endash"

\* day.rsplit("/", 1)[-1]
RECURSIVE AfterLast(_, _)
AfterLast(s, sep) ==
    IF \A i \in 1..Len(s) : s[i] # sep THEN s
    ELSE AfterLast(AfterFirst(s, sep), sep)

\* day of _extract_hours: _first_nonempty yields a str, so a list-valued
\* dayOfWeek is passed over and the isinstance(day, list) branch never runs
HoursDay(r) ==
    AfterLast(_first_nonempty(<<Get(r, "dayOfWeek"), Get(r, "day"),
                                Get(r, "weekday")>>), "/")

HoursRowOf(day, opens, closes) ==
    IF day # <<>> /\ (opens # <<>> \/ closes # <<>>)
    THEN day \o <<":", " ">> \o (IF opens # <<>> THEN opens ELSE <<EmDash>>)
             \o <<" ", EnDash, " ">>
             \o (IF closes # <<>> THEN closes ELSE <<EmDash>>)
    ELSE <<>>

\* the row of one entry of the structured list, "" where it is skipped
HoursRow(r) ==
    IF ~IsDict(r) THEN <<>>
    ELSE HoursRowOf(HoursDay(r),
                    _first_nonempty(<<Get(r, "opens"), Get(r, "openingTime")>>),
                    _first_nonempty(<<Get(r, "closes"), Get(r, "closingTime")>>))

HoursRows(spec) ==
    IF IsList(spec)
    THEN Join(<<";", " ">>, NonEmpty([i \in 1..Len(spec.l) |-> HoursRow(spec.l[i])]))
    ELSE <<>>

HoursFrom(hours, loc) ==
    IF hours # <<>> THEN hours
    ELSE HoursRows(Or(Get(loc, "openingHoursSpecification"),
                      Get(loc, "opening_hours_specification")))

\* _extract_hours(loc)
_extract_hours(loc) == HoursFrom(_first_nonempty(<<_alias_get(loc, "hours")>>), loc)

S_MapsQuery == <<"h","t","t","p","s",":","/","/","w","w","w",".","g","o","o","g","l","e",".","c","o","m","/","m","a","p","s","?","q","=">>
S_ZoomEmbed == <<"&","z","=","1","5","&","o","u","t","p","u","t","=","e","m","b","e","d">>
S_Embed == <<"&","o","u","t","p","u","t","=","e","m","b","e","d">>

HexDigits == <<"0","1","2","3","4","5","6","7","8","9","A","B","C","D","E","F">>

\* the ASCII code of a character quote_plus escapes
AsciiCode(c) ==
    CASE c = "\t" -> 9   [] c = "\n" -> 10  [] c = " " -> 32  [] c = "#" -> 35
      [] c = "&" -> 38   [] c = "'" -> 39   [] c = "+" -> 43  [] c = "," -> 44
      [] c = "/" -> 47   [] c = ":" -> 58   [] c = ";" -> 59  [] c = "<" -> 60
      [] c = "=" -> 61   [] c = ">" -> 62   [] c = "?" -> 63  [] c = "@" -> 64

\* quote_plus of one character: unreserved as it is, space as +, else %XX
QuoteCh(c) ==
    IF IsAlnumCh(c) \/ c \in {"_", ".", "-", "~"} THEN <<c>>
    ELSE IF c = " " THEN <<"+">>
    ELSE <<"%", HexDigits[(AsciiCode(c) \div 16) + 1], HexDigits[(AsciiCode(c) % 16) + 1]>>

\* urllib.parse.quote_plus(address)
quote_plus(s) == Flatten([i \in 1..Len(s) |-> QuoteCh(s[i])])

\* the links of _map_embed_src after the coordinate one
MapLinkOf(map_url, gmaps, address) ==
    IF map_url # <<>> THEN map_url
    ELSE IF gmaps # <<>> THEN gmaps
    ELSE IF address # <<>> THEN S_MapsQuery \o quote_plus(address) \o S_Embed
    ELSE <<>>

\* a synthesizer that prefers the embed URL to the coordinates
MapLinkEmbedFirst(lat, lng, loc, address) ==
    IF _first_nonempty(<<_alias_get(loc, "map_embed_url")>>) # <<>>
    THEN _first_nonempty(<<_alias_get(loc, "map_embed_url")>>)
    ELSE IF IsNum(lat) /\ IsNum(lng)
    THEN S_MapsQuery \o IntToStr(lat.n) \o <<",">> \o IntToStr(lng.n) \o S_ZoomEmbed
    ELSE MapLinkOf(<<>>, _first_nonempty(<<_alias_get(loc, "google_maps_url")>>),
                   address)

MapLinkFrom(lat, lng, loc, address) ==
    IF IsNum(lat) /\ IsNum(lng)
    THEN S_MapsQuery \o IntToStr(lat.n) \o <<",">> \o IntToStr(lng.n) \o S_ZoomEmbed
    ELSE MapLinkOf(_first_nonempty(<<_alias_get(loc, "map_embed_url")>>),
                   _first_nonempty(<<_alias_get(loc, "google_maps_url")>>),
                   address)

\* _map_embed_src(loc, address)
_map_embed_src(loc, address) ==
    MapLinkFrom(_alias_get(loc, "latitude"), _alias_get(loc, "longitude"), loc, address)

\* _normalize_records(payload), for the list load_data returns and for a
\* parsed payload
_normalize_records(payload) ==
    IF IsList(payload) THEN payload.l
    ELSE IF IsDict(payload)
    THEN IF IsList(Get(payload, "locations")) THEN Get(payload, "locations").l
         ELSE <<payload>>
    ELSE <<>>

\* one location card of generate_contact_page, with the phone and email
\* the Quick Contact card draws on
LocationCard(loc) ==
    [name    |-> _first_nonempty(<<_alias_get(loc, "entity_name"),
                                   Get(loc, "location_name"), Str(S_Location)>>),
     person  |-> _first_nonempty(<<_alias_get(loc, "contact_person")>>),
     phone   |-> _first_nonempty(<<_alias_get(loc, "phone")>>),
     email   |-> _first_nonempty(<<_alias_get(loc, "email")>>),
     addr    |-> _format_address(Get(loc, "address"), loc),
     hours   |-> _extract_hours(loc),
     site    |-> _first_nonempty(<<_alias_get(loc, "website")>>),
     socials |-> Take(_as_list(_alias_get(loc, "sameAs")), 8),
     map_src |-> _map_embed_src(loc, _format_address(Get(loc, "address"), loc))]

LocationCards(tree) ==
    LET fl   == SortedFiles(DataFiles(tree.locations, TRUE))
        of(f) == LET locs == Dicts(_normalize_records(Lst(load_data(f))))
                 IN  [i \in 1..Len(locs) |-> LocationCard(locs[i])]
    IN  Flatten([i \in 1..Len(fl) |-> of(fl[i])])

\* the first non-empty value of a card field, in card order
RECURSIVE FirstField(_, _)
FirstField(cards, field) ==
    IF cards = <<>> THEN <<>>
    ELSE IF Head(cards)[field] # <<>> THEN Head(cards)[field]
    ELSE FirstField(Tail(cards), field)

\* the location card as rendered
RenderedCard(card) ==
    [name    |-> escape_html(Str(card.name)),
     person  |-> escape_html(Str(card.person)),
     addr    |-> escape_html(Str(card.addr)),
     hours   |-> escape_html(Str(card.hours)),
     site    |-> escape_html(Str(card.site)),
     map_src |-> escape_html(Str(card.map_src)),
     socials |-> EscapeAll(card.socials)]

ContactWith(cards, tree, slug, now) ==
    IF ~tree.locations.exists \/ cards = <<>>
    THEN _write_placeholder_page(tree, slug, S_ContactUs, MSG_Contact, now)
    ELSE WriteReal(tree, slug, S_ContactUs,
            [kind  |-> "contact",
             quick |-> [name  |-> escape_html(Str(FirstField(cards, "name"))),
                        phone |-> escape_html(Str(FirstField(cards, "phone"))),
                        email |-> escape_html(Str(FirstField(cards, "email")))],
             items |-> [i \in 1..Len(cards) |-> RenderedCard(cards[i])]],
            now)

\* generate_contact_page()
generate_contact_page(tree, slug, now) ==
    ContactWith(LocationCards(tree), tree, slug, now)

(***************************************************************************)
(* Inputs of the build: content trees, environment, earlier output         *)
(***************************************************************************)
S_Acme == <<"A","c","m","e">>
S_HQ == <<"H","Q">>
S_org == <<"o","r","g">>
S_a == <<"a">>
S_b == <<"b">>
S_tax_planning == <<"t","a","x","-","p","l","a","n","n","i","n","g">>
S_phone1 == <<"5","5","5">>
S_mail1 == <<"a","@","b">>
S_repo == <<"a","c","m","e","/","m","y","-","s","i","t","e">>
S_question == <<"W","h","y","?">>
S_answer == <<"B","e","c","a","u","s","e"," ","<","3">>

\* what the file of an organization directory may hold
OrgNamed ==
    FileOf(S_org, EXT_json,
           Doc(Dict([entity_name |-> Str(S_Acme), favicon |-> Str(S_a),
                     mission |-> Str(S_b)])))

OrgFiles ==
    { OrgNamed,
      FileOf(S_org, EXT_json, Doc(Dict([description |-> Str(S_b)]))),
      FileOf(S_org, EXT_json, Blank),
      FileOf(S_org, EXT_yaml, Bad),
      FileOf(S_org, EXT_yaml, Doc(Null)),
      FileOf(S_org, EXT_json, Doc(Lst(<<Num(5)>>))) }

NoOrg == [i \in 1..Len(OrgDirs) |-> NoDir]

\* no organization directory; one file in the first; an empty first
\* directory before one that holds a file
OrgTrees ==
    {NoOrg}
    \cup {[NoOrg EXCEPT ![1] = DirOf(<<f>>)] : f \in OrgFiles}
    \cup {[NoOrg EXCEPT ![1] = DirOf(<<>>), ![3] = DirOf(<<f>>)] :
             f \in {g \in OrgFiles : g.ext = EXT_json /\ g.raw.k \in {"blank", "doc"}}}

ServicesFull ==
    DirOf(<<FileOf(S_tax_planning, EXT_json,
                   Doc(Lst(<<Dict([name |-> Str(S_a),
                                   features |-> Lst(<<Str(S_a), Str(S_b)>>)]),
                             Num(1),
                             Dict([services |-> Lst(<<Dict([title |-> Str(S_b)]),
                                                      Str(S_a)>>)])>>)))>>)

LocationsFull ==
    DirOf(<<FileOf(S_a, EXT_yaml,
                   Doc(Dict([company |-> Str(S_HQ), telephone |-> Str(S_phone1),
                             areas |-> Str(<<"x", ",", "y">>)]))),
            FileOf(S_b, EXT_json,
                   Doc(Lst(<<Dict([email |-> Str(S_mail1)]), Null>>)))>>)

ReviewsFull ==
    DirOf(<<FileOf(S_a, EXT_json,
                   Doc(Lst(<<Dict([author |-> Str(S_a), rating |-> Num(4),
                                   quote |-> Str(S_b)]),
                             Dict([rating |-> Str(<<"3">>)])>>)))>>)

FaqsFull ==
    DirOf(<<FileOf(S_a, EXT_json,
                   Doc(Lst(<<Dict([question |-> Str(S_question),
                                   answer |-> Str(S_answer)]),
                             Dict([question |-> Str(<<" ">>),
                                   answer |-> Str(S_a)])>>)))>>)

\* a list item that is no mapping
FaqsNonMapping ==
    DirOf(<<FileOf(S_a, EXT_json,
                   Doc(Lst(<<Dict([question |-> Str(S_question)]), Num(1)>>)))>>)

\* a question that is no string
FaqsNonString ==
    DirOf(<<FileOf(S_a, EXT_yaml,
                   Doc(Dict([question |-> Num(5), answer |-> Str(S_a)])))>>)

HelpFull ==
    DirOf(<<FileOf(S_a, EXT_md,
                   Text(<<S_dashes, S_title_colon \o <<" ">> \o S_b, S_dashes,
                          <<"#", " ">> \o S_a, <<>>, S_b>>))>>)

ServiceDirs  == {NoDir, DirOf(<<>>), ServicesFull}
LocationDirs == {NoDir, LocationsFull}
ReviewDirs   == {NoDir, ReviewsFull}
FaqDirs      == {NoDir, DirOf(<<>>), FaqsFull, FaqsNonMapping, FaqsNonString}
HelpDirs     == {NoDir, DirOf(<<>>), HelpFull}

\* the trees the build is run on: every organization layout over no content
\* and over full content, every content layout without and with a named
\* organization, and a repository without schemas/ (so without any of its
\* subdirectories)
Trees ==
    [schemas : {TRUE}, org : OrgTrees, services : {NoDir}, locations : {NoDir},
     reviews : {NoDir}, faqs : {NoDir}, help : {NoDir}]
    \cup
    [schemas : {TRUE}, org : OrgTrees, services : {ServicesFull},
     locations : {LocationsFull}, reviews : {ReviewsFull}, faqs : {FaqsFull},
     help : {HelpFull}]
    \cup
    [schemas : {TRUE}, org : {NoOrg, [NoOrg EXCEPT ![1] = DirOf(<<OrgNamed>>)]},
     services : ServiceDirs, locations : LocationDirs, reviews : ReviewDirs,
     faqs : FaqDirs, help : HelpDirs]
    \cup
    {[schemas |-> FALSE, org |-> NoOrg, services |-> NoDir, locations |-> NoDir,
      reviews |-> NoDir, faqs |-> NoDir, help |-> NoDir]}

Repos == {<<>>, S_repo}

html_files ==
    <<"index.html", "about.html", "services.html", "testimonials.html",
      "faqs.html", "help.html", "contact.html">>

Targets == SeqToSet(html_files)

\* a page an earlier build left behind
StalePage ==
    PageFile(generate_page([raised |-> FALSE, name |-> S_HQ, logo |-> <<>>,
                            favicon |-> <<>>],
                           S_AboutUs, Placeholder(S_b), 0), 0)

PriorFiles ==
    { [t \in Targets |-> AbsentFile],
      [t \in Targets |-> StalePage],
      [t \in Targets |-> IF t \in {"index.html", "faqs.html"}
                         THEN EmptyFile(0) ELSE AbsentFile] }

(***************************************************************************)
(* Build orchestrator: the __main__ block                                  *)
(***************************************************************************)
NoneReturned == [t \in Targets |-> "none"]

\* no file is under study
NoFile == [stem |-> <<>>, ext |-> <<>>, raw |-> [k |-> "missing"]]

Init ==
    /\ fs \in Trees
    /\ repo \in Repos
    /\ files \in PriorFiles
    /\ marker = FALSE
    /\ pc = "init"
    /\ clock = 0
    /\ anySuccess = FALSE
    /\ returned = NoneReturned
    /\ status = 0
    /\ prev = files
    /\ rec = Null
    /\ canon = "entity_name"
    /\ path = NoFile
    /\ out = Null
    /\ rpc = "off"

resolverVars == <<rec, canon, path, out, rpc>>

\* a process starts: the state of a fresh interpreter
Begin ==
    /\ pc \in {"init", "exited"}
    /\ clock < MaxRuns
    /\ clock' = clock + 1
    /\ prev' = files
    /\ anySuccess' = FALSE
    /\ returned' = NoneReturned
    /\ pc' = "check"
    /\ UNCHANGED <<fs, repo, files, marker, status, resolverVars>>

\* if not os.path.exists("schemas"): sys.exit(1)
Fatal ==
    /\ pc = "check"
    /\ ~fs.schemas
    /\ status' = 1
    /\ pc' = "exited"
    /\ UNCHANGED <<fs, repo, files, marker, clock, anySuccess, returned, prev,
                   resolverVars>>

\* open(".nojekyll", "w").close()
Marker ==
    /\ pc = "check"
    /\ fs.schemas
    /\ marker' = TRUE
    /\ pc' = "clean"
    /\ UNCHANGED <<fs, repo, files, clock, anySuccess, returned, status, prev,
                   resolverVars>>

\* a build that leaves the old targets in place
RemoveOldNone(fls) == fls

\* for f in html_files: if os.path.exists(f): os.remove(f)
RemoveOld(fls) == [t \in Targets |-> AbsentFile]

Clean ==
    /\ pc = "clean"
    /\ files' = RemoveOld(files)
    /\ pc' = "index.html"
    /\ UNCHANGED <<fs, repo, marker, clock, anySuccess, returned, status, prev,
                   resolverVars>>

\* a generator that opens the home page as well as its own target
WrittenWithHome(fls, target, o) ==
    IF o.write
    THEN [fls EXCEPT ![target] = o.file, !["index.html"] = EmptyFile(o.file.mtime)]
    ELSE fls

\* the target files after the generator of target did o: each generator
\* opens the one file name it is listed under in page_generators
Written(fls, target, o) ==
    IF o.write THEN [fls EXCEPT ![target] = o.file] ELSE fls

\* a turn that takes the generator's first success only into the flag
TurnFirstOnly(target, o, next) ==
    /\ pc = target
    /\ files' = Written(files, target, o)
    /\ returned' = [returned EXCEPT ![target] = o.how]
    /\ anySuccess' = (target = "index.html" /\ o.how = "true")
    /\ IF o.how = "exit"
       THEN pc' = "exited" /\ status' = 1
       ELSE pc' = next /\ status' = status
    /\ UNCHANGED <<fs, repo, marker, clock, prev, resolverVars>>

\* one turn of the loop over page_generators: the generator of target ran
\* and did o; next is the position after it
Turn(target, o, next) ==
    /\ pc = target
    /\ files' = Written(files, target, o)
    /\ returned' = [returned EXCEPT ![target] = o.how]
    /\ anySuccess' = (anySuccess \/ o.how = "true")
    /\ IF o.how = "exit"
       THEN pc' = "exited" /\ status' = 1
       ELSE pc' = next /\ status' = status
    /\ UNCHANGED <<fs, repo, marker, clock, prev, resolverVars>>

RunIndex == Turn("index.html", generate_index_page(fs, repo, clock), "about.html")
RunAbout == Turn("about.html", generate_about_page(fs, repo, clock), "services.html")
RunServices ==
    Turn("services.html", generate_services_page(fs, repo, clock), "testimonials.html")
RunTestimonials ==
    Turn("testimonials.html", generate_testimonials_page(fs, repo, clock), "faqs.html")
RunFaqs == Turn("faqs.html", generate_faq_page(fs, repo, clock), "help.html")
RunHelp == Turn("help.html", generate_help_articles_page(fs, repo, clock), "contact.html")
RunContact == Turn("contact.html", generate_contact_page(fs, repo, clock), "done")

\* the closing message; the interpreter then exits with status 0
Done ==
    /\ pc = "done"
    /\ status' = 0
    /\ pc' = "exited"
    /\ UNCHANGED <<fs, repo, files, marker, clock, anySuccess, returned, prev,
                   resolverVars>>

Next ==
    \/ Begin
    \/ Fatal
    \/ Marker
    \/ Clean
    \/ RunIndex
    \/ RunAbout
    \/ RunServices
    \/ RunTestimonials
    \/ RunFaqs
    \/ RunHelp
    \/ RunContact
    \/ Done

Spec == Init /\ [][Next]_vars

(***************************************************************************)
(* Field resolver on its own: resolve(record, canonicalField)              *)
(***************************************************************************)
\* the keys the nested fallback of a field reads
NestedKeys(f) ==
    IF f \in {"latitude", "longitude"} THEN {"geo"}
    ELSE IF f \in {"phone", "email"} THEN {"contactPoint", "contact_point"}
    ELSE {}

FieldKeys(f) == {f} \cup SeqToSet(FIELD_ALIASES[f])

ScalarValues == {Null, Str(<<>>), Str(<<" ">>), Str(S_a), Num(0), Num(7)}

NestedValues ==
    {Null,
     Dict([latitude |-> Num(3), longitude |-> Num(4)]),
     Dict([telephone |-> Str(S_phone1), email |-> Str(S_mail1)]),
     Dict([telephone |-> Str(S_phone1), phone |-> Str(S_a)]),
     Dict([phone |-> Str(S_a)])}

\* the keys a record drawn for a field may hold: the keys resolution reads,
\* and for a coordinate the keys of the other coordinate as well
KeyPool(f) ==
    FieldKeys(f) \cup NestedKeys(f)
    \cup (IF f \in {"latitude", "longitude"}
          THEN FieldKeys("latitude") \cup FieldKeys("longitude") ELSE {})

\* the records drawn for a field: at most MaxKeys of the keys of its pool,
\* top-level keys holding scalars and nested keys holding mappings
RecordsFor(f) ==
    UNION {{d \in [K -> ScalarValues \cup NestedValues] :
               \A k \in K : d[k] \in (IF k \in NestedKeys(f) THEN NestedValues
                                      ELSE ScalarValues)} :
           K \in {K \in SUBSET KeyPool(f) : Cardinality(K) <= MaxKeys}}

IdleTree ==
    [schemas |-> FALSE, org |-> NoOrg, services |-> NoDir, locations |-> NoDir,
     reviews |-> NoDir, faqs |-> NoDir, help |-> NoDir]

\* no build is running
Idle ==
    /\ fs = IdleTree
    /\ repo = <<>>
    /\ files = [t \in Targets |-> AbsentFile]
    /\ marker = FALSE
    /\ pc = "off"
    /\ clock = 0
    /\ anySuccess = FALSE
    /\ returned = NoneReturned
    /\ status = 0
    /\ prev = files

buildVars == <<fs, repo, files, marker, pc, clock, anySuccess, returned,
               status, prev>>

InitResolve ==
    /\ canon \in CanonFields
    /\ rec \in {Dict(d) : d \in RecordsFor(canon)}
    /\ path = NoFile
    /\ out = Null
    /\ rpc = "ready"
    /\ Idle

Resolve ==
    /\ rpc = "ready"
    /\ out' = _alias_get(rec, canon)
    /\ rpc' = "resolved"
    /\ UNCHANGED <<buildVars, rec, canon, path>>

\* _first_nonempty(_alias_get(loc, field)), as _extract_contact and the
\* synthesizers read a field: the resolved value goes through _first_nonempty
Show ==
    /\ rpc = "resolved"
    /\ out' = Str(_first_nonempty(<<out>>))
    /\ rpc' = "shown"
    /\ UNCHANGED <<buildVars, rec, canon, path>>

\* map_src of generate_contact_page: _map_embed_src(loc, addr) with addr the
\* formatted address of the record
MapLink ==
    /\ rpc = "ready"
    /\ out' = Str(_map_embed_src(rec, _format_address(Get(rec, "address"), rec)))
    /\ rpc' = "mapped"
    /\ UNCHANGED <<buildVars, rec, canon, path>>

SpecResolve == InitResolve /\ [][Resolve \/ Show \/ MapLink]_vars

(***************************************************************************)
(* Map-link synthesizer on its own                                         *)
(***************************************************************************)
S_embed_url == <<"h","t","t","p",":","/","/","e","/","m">>
S_gmaps_url == <<"h","t","t","p",":","/","/","g","/","m">>
S_street == <<"1"," ","A","&","B"," ","S","t">>
S_city == <<"U","l","m">>

NoKey == [k \in {} |-> Null]

\* how a location gives its latitude, longitude, embed URL, external map
\* URL and address: not at all, under the canonical key or under an alias
LatGiven ==
    {NoKey, "latitude" :> Num(40), "lat" :> Num(0), "latitude" :> Str(<<"4","0">>),
     "geo" :> Dict([latitude |-> Num(3), longitude |-> Num(4)])}
LngGiven == {NoKey, "longitude" :> Num(0 - 7), "lng" :> Num(0)}
EmbedGiven ==
    {NoKey, "map_embed_url" :> Str(S_embed_url), "map" :> Str(S_embed_url),
     "map_embed_url" :> Str(<<" ">>)}
GmapsGiven == {NoKey, "google_maps_url" :> Str(S_gmaps_url), "maps_url" :> Str(S_gmaps_url)}
AddressGiven ==
    {NoKey, "address" :> Str(S_street),
     "address" :> Dict([streetAddress |-> Str(S_street), addressLocality |-> Str(S_city)]),
     "city" :> Str(S_city)}

MapRecords ==
    {Dict(a @@ b @@ c @@ d @@ e) :
        a \in LatGiven, b \in LngGiven, c \in EmbedGiven, d \in GmapsGiven,
        e \in AddressGiven}

InitMap ==
    /\ rec \in MapRecords
    /\ canon = "latitude"
    /\ path = NoFile
    /\ out = Null
    /\ rpc = "ready"
    /\ Idle

SpecMap == InitMap /\ [][MapLink]_vars

(***************************************************************************)
(* Services title resolver on its own                                      *)
(***************************************************************************)
S_TaxPlanning == <<"T","a","x"," ","P","l","a","n","n","i","n","g">>
S_Real == <<"R","e","a","l"," ","N","a","m","e">>
S_roof_repair == <<"r","o","o","f"," ","r","e","p","a","i","r">>
S_siding == <<"s","i","d","i","n","g">>

\* titles and file names written in records and directories
T_ServicePlan == <<"S","e","r","v","i","c","e"," ","P","l","a","n">>
T_Service == <<"S","e","r","v","i","c","e">>
T_TBD == <<" ","T","B","D"," ">>
T_item3 == <<"i","t","e","m"," ","3">>
T_entry12 == <<"e","n","t","r","y","1","2">>
T_na == <<"N","/","A">>
T_Untitled == <<"U","n","t","i","t","l","e","d">>
T_unnamed == <<"U","n","n","a","m","e","d"," ","S","e","r","v","i","c","e">>
T_services == <<"s","e","r","v","i","c","e","s">>
T_roof_file == <<"r","o","o","f","_","r","e","p","a","i","r">>
T_RoofRepair == <<"R","o","o","f"," ","R","e","p","a","i","r">>
T_Tbd == <<"T","b","d">>
T_RoofSiding == <<"R","o","o","f"," ","R","e","p","a","i","r"," ","/"," ","S","i","d","i","n","g">>

\* titles the resolver has to reject, as written in a record
RejectedTitles ==
    {<<>>, <<" ", " ">>, T_Service, T_TBD, T_item3, T_entry12, T_na,
     T_Untitled, T_unnamed}

\* titles it has to keep
KeptTitles == {S_TaxPlanning, T_services, T_ServicePlan}

TitleGiven ==
    {NoKey}
    \cup {"title" :> Str(t) : t \in RejectedTitles \cup KeptTitles}
    \cup {"service_name" :> Str(S_TaxPlanning), "label" :> Str(T_item3)}

NameGiven == {NoKey, "name" :> Str(S_Real)}

KeywordsGiven ==
    {NoKey,
     "keywords" :> Lst(<<Str(S_roof_repair), Str(S_siding), Str(S_a)>>),
     "keywords" :> Str(S_tbd),
     "keywords" :> Lst(<<>>)}

TitleRecords ==
    {Dict(a @@ b @@ c) : a \in TitleGiven, b \in NameGiven, c \in KeywordsGiven}

TitleFiles ==
    {FileOf(S_tax_planning, EXT_json, Blank),
     FileOf(T_roof_file, EXT_yaml, Blank),
     FileOf(S_service, EXT_json, Blank)}

InitTitle ==
    /\ rec \in TitleRecords
    /\ path \in TitleFiles
    /\ canon = "entity_name"
    /\ out = Null
    /\ rpc = "ready"
    /\ Idle

\* title = _guess_title(svc, filepath)
GuessTitle ==
    /\ rpc = "ready"
    /\ out' = Str(_guess_title(rec, path))
    /\ rpc' = "titled"
    /\ UNCHANGED <<buildVars, rec, canon, path>>

SpecTitle == InitTitle /\ [][GuessTitle]_vars

(***************************************************************************)
(* Bullet extractor on its own                                             *)
(***************************************************************************)
\* list items and bullets written in records and pages
B_Fast == <<"F","a","s","t">>
B_FAST == <<"F","A","S","T">>
B_Cheap == <<"C","h","e","a","p">>
B_Safe == <<"S","a","f","e">>
B_Big == <<"B","i","g">>
B_Warm == <<"W","a","r","m">>
B_FastCheap == <<" ","F","a","s","t",","," ","C","h","e","a","p"," ",",">>
B_Roofs == <<"R","o","o","f","s">>
B_Decks == <<"D","e","c","k","s">>
B_Sheds == <<"S","h","e","d","s">>
B_Barns == <<"B","a","r","n","s">>
B_UlmBonn == <<"U","l","m",","," ","B","o","n","n">>
B_Ulm == <<"U","l","m">>
B_Bonn == <<"B","o","n","n">>
B_AreasSix == <<"S","e","r","v","i","c","e"," ","a","r","e","a","s",":"," ","u",","," ","v",","," ","w",","," ","x",","," ","y">>
B_AreasUlmBonn == <<"S","e","r","v","i","c","e"," ","a","r","e","a","s",":"," ","U","l","m",","," ","B","o","n","n">>

\* a list of str values
StrList(xs) == Lst([i \in 1..Len(xs) |-> Str(xs[i])])

F_dup == "features" :> StrList(<<B_Fast, B_FAST, B_Cheap, B_Safe, B_Big>>)
F_four == "features" :> StrList(<<B_Fast, B_Cheap, B_Safe, B_Big>>)
F_benefits == ("features" :> Lst(<<>>)) @@ ("benefits" :> StrList(<<B_Warm>>))
F_text == "highlights" :> Str(B_FastCheap)
F_blank == "features" :> StrList(<<<<" ", " ">>>>)
F_both == ("features" :> StrList(<<B_Safe>>)) @@ ("benefits" :> StrList(<<B_Warm>>))

FeaturesGiven == {NoKey, F_dup, F_four, F_benefits, F_text, F_blank, F_both}

P_four == "specialties" :> StrList(<<B_Roofs, B_Decks, B_Sheds, B_Barns>>)
P_fast == "capabilities" :> StrList(<<B_FAST>>)

SpecialtiesGiven == {NoKey, P_four, P_fast}

A_six == "service_areas" :> StrList(<<<<"u">>, <<"v">>, <<"w">>, <<"x">>, <<"y">>, <<"z">>>>)
A_text == "areas" :> Str(B_UlmBonn)
A_served == "locations_served" :> StrList(<<B_Ulm, B_Bonn>>)
A_empty == "service_areas" :> Lst(<<>>)

AreasGiven == {NoKey, A_six, A_text, A_served, A_empty}

BulletRecords ==
    {Dict(a @@ b @@ c) : a \in FeaturesGiven, b \in SpecialtiesGiven, c \in AreasGiven}

InitBullets ==
    /\ rec \in BulletRecords
    /\ path = NoFile
    /\ canon = "entity_name"
    /\ out = Null
    /\ rpc = "ready"
    /\ Idle

\* bullets = _bullet_points(svc)
Bullets ==
    /\ rpc = "ready"
    /\ out' = StrList(_bullet_points(rec))
    /\ rpc' = "bulleted"
    /\ UNCHANGED <<buildVars, rec, canon, path>>

SpecBullets == InitBullets /\ [][Bullets]_vars

(***************************************************************************)
(* Record loader on its own                                                *)
(***************************************************************************)
EXT_JSON == <<"J","S","O","N">>
EXT_none == <<>>

\* what a path can hold: nothing, bytes open() or read() refuses, blank or
\* unparseable content, or a document
LoadContents ==
    {[k |-> "missing"], [k |-> "unopenable"], [k |-> "undecodable"], Blank, Bad,
     Doc(Lst(<<Dict("name" :> Str(S_a)), Dict("name" :> Str(S_b))>>)),
     Doc(Lst(<<>>)),
     Doc(Dict("name" :> Str(S_a))),
     Doc(Dict(NoKey)),
     Doc(Str(S_a)),
     Doc(Num(0)),
     Doc(Num(7)),
     Doc(Null)}

LoadFiles ==
    {FileOf(S_a, e, c) :
        e \in {EXT_json, EXT_yaml, EXT_yml, EXT_md, EXT_llm, EXT_JSON, EXT_none},
        c \in LoadContents}

InitLoad ==
    /\ rec = Dict(NoKey)
    /\ path \in LoadFiles
    /\ canon = "entity_name"
    /\ out = Null
    /\ rpc = "ready"
    /\ Idle

\* load_data(filepath)
Load ==
    /\ rpc = "ready"
    /\ out' = LoadCall(path)
    /\ rpc' = "loaded"
    /\ UNCHANGED <<buildVars, rec, canon, path>>

SpecLoad == InitLoad /\ [][Load]_vars

(***************************************************************************)
(* Location records of one file                                            *)
(***************************************************************************)
LocationRecords ==
    {Dict("name" :> Str(S_a)), Dict("name" :> Str(S_b)),
     Dict("telephone" :> Str(S_phone1))}

\* lists of up to two location records
LocationLists ==
    {<<>>} \cup {<<r>> : r \in LocationRecords}
           \cup {<<r, q>> : r \in LocationRecords, q \in LocationRecords}

\* what a location file can hold: a list of records, a mapping that wraps
\* such a list under locations (alone or next to a name), or one record
LocationPayloads ==
    {Lst(l) : l \in LocationLists}
    \cup {Dict("locations" :> Lst(l)) : l \in LocationLists}
    \cup {Dict(("name" :> Str(S_b)) @@ ("locations" :> Lst(l))) : l \in LocationLists}
    \cup LocationRecords
    \cup {Dict(("name" :> Str(S_a)) @@ ("locations" :> Str(S_b)))}

LocationFiles ==
    {FileOf(S_a, e, Doc(p)) : e \in {EXT_json, EXT_yaml, EXT_yml},
                              p \in LocationPayloads}

InitLocations ==
    /\ rec = Dict(NoKey)
    /\ path \in LocationFiles
    /\ canon = "entity_name"
    /\ out = Null
    /\ rpc = "ready"
    /\ Idle

\* one turn of the file loop of generate_contact_page: the records that
\* get a card
ReadLocations ==
    /\ rpc = "ready"
    /\ out' = Lst(Dicts(_normalize_records(Lst(load_data(path)))))
    /\ rpc' = "read"
    /\ UNCHANGED <<buildVars, rec, canon, path>>

SpecLocations == InitLocations /\ [][ReadLocations]_vars

(***************************************************************************)
(* Hours formatter on its own                                              *)
(***************************************************************************)
H_Mon == <<"M","o","n">>
H_Tue == <<"T","u","e">>
H_Wed == <<"W","e","d">>
H_Thu == <<"T","h","u">>
H_SlashTue == <<"h","t","t","p",":","/","/","s",".","o","r","g","/","T","u","e">>
H_nine == <<"0","9",":","0","0">>
H_five == <<"1","7",":","0","0">>
H_direct == <<"M","o","-","F","r"," ","9","-","5">>

DayGiven ==
    {NoKey, "dayOfWeek" :> Str(H_Mon), "dayOfWeek" :> Str(H_SlashTue),
     "dayOfWeek" :> Lst(<<Str(H_Wed), Str(H_Thu)>>)}
OpensGiven == {NoKey, "opens" :> Str(H_nine)}
ClosesGiven == {NoKey, "closes" :> Str(H_five)}

HoursEntries ==
    {Dict(d @@ o @@ c) : d \in DayGiven, o \in OpensGiven, c \in ClosesGiven}

\* second entries of a two-entry list
HoursSeconds ==
    {Dict(("day" :> Str(H_Thu)) @@ ("closingTime" :> Str(H_five))),
     Dict(("dayOfWeek" :> Lst(<<Str(H_Wed), Str(H_Thu)>>)) @@ ("opens" :> Str(H_nine))),
     Dict("weekday" :> Str(H_Mon))}

HoursLists ==
    {<<>>} \cup {<<e>> : e \in HoursEntries}
           \cup {<<e, f>> : e \in HoursEntries, f \in HoursSeconds}

DirectGiven == {NoKey, "hours" :> Str(H_direct), "business_hours" :> Str(H_direct)}

HoursRecords ==
    {Dict(h @@ ("openingHoursSpecification" :> Lst(l))) :
        h \in DirectGiven, l \in HoursLists}
    \cup {Dict("opening_hours_specification" :> Lst(l)) : l \in HoursLists}
    \cup {Dict(h) : h \in DirectGiven}

InitHours ==
    /\ rec \in HoursRecords
    /\ path = NoFile
    /\ canon = "hours"
    /\ out = Null
    /\ rpc = "ready"
    /\ Idle

\* hours = _extract_hours(loc)
Hours ==
    /\ rpc = "ready"
    /\ out' = Str(_extract_hours(rec))
    /\ rpc' = "hours"
    /\ UNCHANGED <<buildVars, rec, canon, path>>

SpecHours == InitHours /\ [][Hours]_vars

(***************************************************************************)
(* Address formatter on its own                                            *)
(***************************************************************************)
A_verbatim == <<" ","5"," ","E","l","m"," ","R","d",","," ","B","o","n","n"," ">>
A_trimmed == <<"5"," ","E","l","m"," ","R","d",","," ","B","o","n","n">>
A_line2 == <<"A","p","t"," ","2">>
A_state == <<"B","W">>
A_zip == <<"8","9">>

\* the parts of an address as a mapping address gives them
InStreet == {NoKey, "streetAddress" :> Str(S_street)}
InLine2  == {NoKey, "suite" :> Str(A_line2)}
InCity   == {NoKey, "city" :> Str(S_city)}
InState  == {NoKey, "addressRegion" :> Str(A_state)}
InZip    == {NoKey, "postalCode" :> Num(89)}

AddressMappings ==
    {Dict(a @@ b @@ c @@ d @@ e) :
        a \in InStreet, b \in InLine2, c \in InCity, d \in InState, e \in InZip}

\* the parts as the owning record gives them
OfStreet == {NoKey, "street" :> Str(S_street)}
OfLine2  == {NoKey, "address_line_2" :> Str(A_line2)}
OfCity   == {NoKey, "address_city" :> Str(S_city)}
OfState  == {NoKey, "province" :> Str(A_state)}
OfZip    == {NoKey, "zip" :> Str(A_zip)}

AddressParts ==
    {a @@ b @@ c @@ d @@ e :
        a \in OfStreet, b \in OfLine2, c \in OfCity, d \in OfState, e \in OfZip}

\* raw addresses that are neither a usable string nor a mapping
OtherAddresses == {NoKey, "address" :> Str(<<" ">>), "address" :> Num(5),
                   "address" :> Null, "address" :> Lst(<<Str(S_street)>>)}

AddressRecords ==
    {Dict(a @@ p) : a \in OtherAddresses \cup {"address" :> Str(A_verbatim)},
                    p \in AddressParts}
    \cup {Dict(("address" :> m) @@ p) :
             m \in AddressMappings,
             p \in {NoKey, ("street" :> Str(A_line2)) @@ ("province" :> Str(S_city))}}

InitAddress ==
    /\ rec \in AddressRecords
    /\ path = NoFile
    /\ canon = "address_street"
    /\ out = Null
    /\ rpc = "ready"
    /\ Idle

\* addr = _format_address(loc.get("address"), loc)
Address ==
    /\ rpc = "ready"
    /\ out' = Str(_format_address(Get(rec, "address"), rec))
    /\ rpc' = "addressed"
    /\ UNCHANGED <<buildVars, rec, canon, path>>

SpecAddress == InitAddress /\ [][Address]_vars

(***************************************************************************)
(* Brand name on its own                                                   *)
(***************************************************************************)
N_Org == <<"O","r","g"," ","I","n","c">>
N_Company == <<"C","o"," ","L","t","d">>
N_Reviews == <<"R","e","v">>
N_Services == <<"S","v","c">>
N_Locations == <<"L","o","c">>
N_MySite == <<"M","y"," ","S","i","t","e">>
N_repo_plain == <<"m","y","-","s","i","t","e">>
N_repo_nested == <<"a","c","m","e","/","t","e","a","m","/","m","y","-","s","i","t","e">>
N_repo_bare == <<"a","c","m","e","/">>

\* an organization file whose first record has a name, one whose record has
\* a name only the probes read, and one without a name
OrgWithName == FileOf(S_org, EXT_json, Doc(Dict("brand" :> Str(N_Org))))
OrgWithCompany == FileOf(S_org, EXT_yml, Doc(Dict("company" :> Str(N_Company))))
OrgNameless == FileOf(S_org, EXT_json, Doc(Lst(<<Dict("mission" :> Str(S_b)),
                                                Dict("name" :> Str(S_a))>>)))

BrandOrgs ==
    {NoOrg}
    \cup {[NoOrg EXCEPT ![d] = DirOf(<<f>>)] :
             d \in {1, 5}, f \in {OrgWithName, OrgWithCompany, OrgNameless}}
    \cup {[NoOrg EXCEPT ![2] = DirOf(<<OrgNameless>>), ![4] = DirOf(<<OrgWithName>>)],
          [NoOrg EXCEPT ![1] = DirOf(<<FileOf(S_org, EXT_json, Blank)>>)]}

\* a content directory whose first record gives a name
NamedDir(key, name) == DirOf(<<FileOf(S_a, EXT_json, Doc(Dict(key :> Str(name))))>>)

BrandTrees ==
    [schemas : {TRUE}, org : BrandOrgs,
     services : {NoDir, NamedDir("name", N_Services), NamedDir("title", N_Services)},
     locations : {NoDir, NamedDir("organization", N_Locations)},
     reviews : {NoDir, NamedDir("entity_name", N_Reviews)},
     faqs : {NoDir}, help : {NoDir}]

BrandRepos == {<<>>, S_repo, N_repo_plain, N_repo_nested, N_repo_bare}

InitBrand ==
    /\ fs \in BrandTrees
    /\ repo \in BrandRepos
    /\ files = [t \in Targets |-> AbsentFile]
    /\ marker = FALSE
    /\ pc = "off"
    /\ clock = 0
    /\ anySuccess = FALSE
    /\ returned = NoneReturned
    /\ status = 0
    /\ prev = files
    /\ rec = Dict(NoKey)
    /\ path = NoFile
    /\ canon = "entity_name"
    /\ out = Null
    /\ rpc = "ready"

\* the site name of generate_page, or the IndexError of load_org_meta
BrandOf(meta) == IF meta.raised THEN Raises ELSE Returns(Str(SiteName(meta)))

\* org = load_org_meta(); site_name = org.get("name") or "Site"
Brand ==
    /\ rpc = "ready"
    /\ out' = BrandOf(load_org_meta(fs, repo))
    /\ rpc' = "branded"
    /\ UNCHANGED <<buildVars, rec, canon, path>>

SpecBrand == InitBrand /\ [][Brand]_vars

(***************************************************************************)
(* FAQ assembler on its own                                                *)
(***************************************************************************)
Q_escaped == <<"a","<","b">>
Q_padded == <<" ","W","h","y","?"," ">>

QuestionGiven ==
    {NoKey, "question" :> Str(<<>>), "question" :> Str(<<" ", "\t">>),
     "question" :> Null, "question" :> Str(Q_padded), "question" :> Str(Q_escaped)}
AnswerGiven == {NoKey, "answer" :> Str(S_answer)}

FaqItemsGiven == {Dict(q @@ a) : q \in QuestionGiven, a \in AnswerGiven}

\* what a FAQ file holds: a list of up to two items, or one item
FaqPayloads ==
    {Lst(<<>>)} \cup {Lst(<<i>>) : i \in FaqItemsGiven}
                \cup {Lst(<<i, j>>) : i \in FaqItemsGiven, j \in FaqItemsGiven}
                \cup FaqItemsGiven

FaqTrees ==
    {[IdleTree EXCEPT !.schemas = TRUE,
                      !.faqs = DirOf(<<FileOf(S_a, EXT_yaml, Doc(p))>>)] :
        p \in FaqPayloads}
    \cup {[IdleTree EXCEPT !.schemas = TRUE, !.faqs = d] : d \in {NoDir, DirOf(<<>>)}}

InitFaq ==
    /\ fs \in FaqTrees
    /\ repo = S_repo
    /\ files = [t \in Targets |-> AbsentFile]
    /\ marker = FALSE
    /\ pc = "off"
    /\ clock = 0
    /\ anySuccess = FALSE
    /\ returned = NoneReturned
    /\ status = 0
    /\ prev = files
    /\ rec = Dict(NoKey)
    /\ path = NoFile
    /\ canon = "entity_name"
    /\ out = Null
    /\ rpc = "ready"

\* generate_faq_page()
Faq ==
    /\ rpc = "ready"
    /\ out' = generate_faq_page(fs, repo, clock)
    /\ rpc' = "faq"
    /\ UNCHANGED <<buildVars, rec, canon, path>>

SpecFaq == InitFaq /\ [][Faq]_vars

(***************************************************************************)
(* Help article on its own                                                 *)
(***************************************************************************)
MaxLines == 4

L_title == S_title_colon \o <<" ">> \o S_b
L_text == <<"#"," ","x">>

HelpLines == {S_dashes, L_title, L_text}

\* the markdown files of up to MaxLines lines
HelpFiles ==
    {FileOf(S_a, EXT_md, Text(ls)) :
        ls \in UNION {[1..n -> HelpLines] : n \in 0..MaxLines}}

InitHelp ==
    /\ rec = Dict(NoKey)
    /\ path \in HelpFiles
    /\ canon = "entity_name"
    /\ out = Null
    /\ rpc = "ready"
    /\ Idle

\* one turn of the file loop of generate_help_articles_page
Help ==
    /\ rpc = "ready"
    /\ out' = HelpArticle(path)
    /\ rpc' = "article"
    /\ UNCHANGED <<buildVars, rec, canon, path>>

SpecHelp == InitHelp /\ [][Help]_vars

(***************************************************************************)
(* Contact page on its own                                                 *)
(***************************************************************************)
C_phone2 == <<"7","7","7">>
C_mail2 == <<"c","@","d">>

\* a location record that gives some of name, phone and email
ContactRecords(name, phone, email) ==
    {Dict(n @@ p @@ e) : n \in {NoKey, "name" :> Str(name)},
                         p \in {NoKey, "telephone" :> Str(phone)},
                         e \in {NoKey, "email" :> Str(email)}}

\* one location file with one record, or with two
ContactPayloads ==
    {Lst(<<r>>) : r \in ContactRecords(S_HQ, S_phone1, S_mail1)}
    \cup {Lst(<<r, q>>) : r \in ContactRecords(S_HQ, S_phone1, S_mail1),
                          q \in ContactRecords(S_b, C_phone2, C_mail2)}

ContactTrees ==
    {[IdleTree EXCEPT !.schemas = TRUE,
                      !.locations = DirOf(<<FileOf(S_a, EXT_json, Doc(p))>>)] :
        p \in ContactPayloads}

InitContact ==
    /\ fs \in ContactTrees
    /\ repo = S_repo
    /\ files = [t \in Targets |-> AbsentFile]
    /\ marker = FALSE
    /\ pc = "off"
    /\ clock = 0
    /\ anySuccess = FALSE
    /\ returned = NoneReturned
    /\ status = 0
    /\ prev = files
    /\ rec = Dict(NoKey)
    /\ path = NoFile
    /\ canon = "entity_name"
    /\ out = Null
    /\ rpc = "ready"

\* generate_contact_page()
Contact ==
    /\ rpc = "ready"
    /\ out' = generate_contact_page(fs, repo, clock)
    /\ rpc' = "contact"
    /\ UNCHANGED <<buildVars, rec, canon, path>>

SpecContact == InitContact /\ [][Contact]_vars

(***************************************************************************)
(* About page facts on their own                                           *)
(***************************************************************************)
RatingGiven ==
    {NoKey, "rating" :> Num(0), "rating" :> Num(1), "rating" :> Num(2),
     "rating" :> Num(4), "rating" :> Num(5), "rating" :> Num(10),
     "rating" :> Num(0 - 3), "rating" :> Str(<<"4">>), "rating" :> Str(<<"x">>),
     "rating" :> Null}

ReviewsGiven ==
    {<<>>} \cup {<<Dict(a)>> : a \in RatingGiven}
           \cup {<<Dict(a), Dict(b)>> : a \in RatingGiven, b \in RatingGiven}

ReviewTrees ==
    {[IdleTree EXCEPT !.schemas = TRUE,
                      !.reviews = DirOf(<<FileOf(S_a, EXT_json, Doc(Lst(l)))>>)] :
        l \in ReviewsGiven}

InitFacts ==
    /\ fs \in ReviewTrees
    /\ repo = S_repo
    /\ files = [t \in Targets |-> AbsentFile]
    /\ marker = FALSE
    /\ pc = "off"
    /\ clock = 0
    /\ anySuccess = FALSE
    /\ returned = NoneReturned
    /\ status = 0
    /\ prev = files
    /\ rec = Dict(NoKey)
    /\ path = NoFile
    /\ canon = "entity_name"
    /\ out = Null
    /\ rpc = "ready"

\* the facts gathered by generate_about_page
Facts ==
    /\ rpc = "ready"
    /\ out' = AboutFacts(fs)
    /\ rpc' = "facts"
    /\ UNCHANGED <<buildVars, rec, canon, path>>

SpecFacts == InitFacts /\ [][Facts]_vars

(***************************************************************************)
(* About and Services pages over one services directory                    *)
(***************************************************************************)
\* records of a services file: a service, a parent with a services list
\* (mixed, empty, holding a parent again), and items that are no mapping
ServiceRecords ==
    {Dict("title" :> Str(S_a)),
     Dict("services" :> Lst(<<Dict("name" :> Str(S_b)), Str(S_a), Dict(NoKey)>>)),
     Dict("services" :> Lst(<<>>)),
     Dict("services" :> Lst(<<Dict("services" :> Lst(<<Dict("title" :> Str(S_a)),
                                                      Dict("title" :> Str(S_b))>>))>>)),
     Dict(("title" :> Str(S_b)) @@ ("services" :> Str(S_a))),
     Num(1),
     Str(S_a)}

ServicePayloads ==
    {Lst(<<>>), Null} \cup {Lst(<<r>>) : r \in ServiceRecords}
                      \cup {Lst(<<r, q>>) : r \in ServiceRecords, q \in ServiceRecords}
                      \cup {r \in ServiceRecords : IsDict(r)}

ServiceFiles ==
    {FileOf(S_a, EXT_json, Doc(p)) : p \in ServicePayloads}
    \cup {FileOf(S_a, EXT_yaml, Blank), FileOf(S_a, EXT_yml, Bad),
          FileOf(S_a, EXT_JSON, Doc(Dict("title" :> Str(S_a)))),
          FileOf(S_a, EXT_md, Doc(Dict("title" :> Str(S_a))))}

ServiceDirsGiven ==
    {NoDir, DirOf(<<>>)}
    \cup {DirOf(<<f>>) : f \in ServiceFiles}
    \cup {DirOf(<<FileOf(S_b, EXT_yaml, Doc(p)), f>>) :
             f \in ServiceFiles,
             p \in {Dict("name" :> Str(S_b)), Lst(<<Num(1)>>)}}

ServiceTrees ==
    {[IdleTree EXCEPT !.schemas = TRUE, !.services = d] : d \in ServiceDirsGiven}

\* the generator loop about to run the About generator
InitServices ==
    /\ fs \in ServiceTrees
    /\ repo = S_repo
    /\ files = [t \in Targets |-> AbsentFile]
    /\ marker = TRUE
    /\ pc = "about.html"
    /\ clock = 1
    /\ anySuccess = FALSE
    /\ returned = NoneReturned
    /\ status = 0
    /\ prev = files
    /\ rec = Null
    /\ path = NoFile
    /\ canon = "entity_name"
    /\ out = Null
    /\ rpc = "off"

SpecServices == InitServices /\ [][RunAbout \/ RunServices]_vars

(***************************************************************************)
(* Properties of the build                                                 *)
(***************************************************************************)
\* the process of the current run has ended
Ended == pc = "exited" /\ clock >= 1

\* the current run got past the check for schemas/ and the clean-up
Cleaned == pc \in Targets \cup {"done"} \/ (Ended /\ fs.schemas)

\* schemas/ exists and none of the directories the generators read does
SubdirsAbsent ==
    /\ fs.schemas
    /\ \A i \in 1..Len(OrgDirs) : ~fs.org[i].exists
    /\ \A i \in 1..Len(ContentDirs) : ~DirNamed(fs, ContentDirs[i]).exists

PlaceholderMessage(t) ==
    CASE t = "services.html"     -> MSG_Services
      [] t = "testimonials.html" -> MSG_Testimonials
      [] t = "faqs.html"         -> MSG_Faqs
      [] t = "help.html"         -> MSG_Help
      [] t = "contact.html"      -> MSG_Contact

\* target t holds the content its generator gives for no data at all
EmptyStateContent(t, c) ==
    IF t = "index.html" THEN c.kind = "index" /\ c.links = {}
    ELSE IF t = "about.html"
    THEN c.kind = "about" /\ ~c.own_desc /\ c.facts.services = 0 /\ c.facts.rated = 0
    ELSE c = Placeholder(PlaceholderMessage(t))

EmptyStatePage(t) ==
    files[t].kind = "page" /\ EmptyStateContent(t, files[t].page.content)

\* C1: a run on a schemas/ directory without any recognised subdirectory
\* ends with status 0 and with all seven targets written, each holding its
\* designated placeholder or synthesized content.
C1_AlwaysEmit ==
    (Ended /\ SubdirsAbsent) =>
        status = 0 /\ \A t \in Targets : EmptyStatePage(t)

\* the branding lookup works and the repository identifier is set
BrandingLoads == ~load_org_meta(fs, repo).raised /\ repo # <<>>

\* C2: whatever its source directory holds, a generator that has run has
\* written its target (stated for runs where branding loads and the
\* repository identifier is set).
C2_EveryAssemblerWrites ==
    BrandingLoads =>
        \A t \in Targets : returned[t] # "none" => files[t].kind = "page"

\* position of a target in html_files
Position(t) == CHOOSE i \in 1..Len(html_files) : html_files[i] = t

\* C3: the generators run in the fixed order index, about, services,
\* testimonials, faqs, help, contact, and a failure of one never keeps the
\* later ones from running: a run that got past the schemas/ check ends
\* with all seven having run.
C3_FailureIsCaught ==
    /\ \A t, u \in Targets :
          (returned[u] # "none" /\ Position(t) < Position(u)) => returned[t] # "none"
    /\ (Ended /\ fs.schemas) => \A t \in Targets : returned[t] # "none"

\* C4: every run on a repository that has schemas/ ends with status 0.
C4_ExitZeroWithSchemas == (Ended /\ fs.schemas) => status = 0

\* C5: with the repository identifier unset only the home page is lost: the
\* other six targets are generated in the same run.
C5_FailureConfinedToIndex ==
    (Ended /\ SubdirsAbsent /\ repo = <<>>) =>
        \A t \in Targets \ {"index.html"} : files[t].kind = "page"

\* C6: the clean-up removes all seven targets before the first generator
\* runs, so from then on every target that exists was written in the
\* current run.
C6_NoStaleTarget ==
    /\ (pc = "index.html" /\ returned["index.html"] = "none") =>
          \A t \in Targets : files[t].kind = "absent"
    /\ Cleaned => \A t \in Targets : files[t].kind # "absent" => files[t].mtime = clock

\* C6 witness: a run over the targets of an earlier build has ended, one
\* old target is gone and another was written anew
C6_Witness ==
    /\ Ended /\ fs.schemas
    /\ prev["faqs.html"].kind = "page" /\ files["faqs.html"].kind = "absent"
    /\ prev["help.html"].kind = "page" /\ files["help.html"].kind = "page"
    /\ files["help.html"].mtime = clock

\* C7: when a run that got past the schemas/ check ends, every target is
\* absent or a complete page; none is empty.
C7_AbsentOrComplete ==
    (Ended /\ fs.schemas) => \A t \in Targets : files[t].kind \in {"absent", "page"}

\* the organization file load_org_meta picks holds no record: it is blank,
\* unparseable or an empty document
OrgFileUnreadable(picked) == picked.found /\ load_data(picked.file) = <<>>

\* C8: an organization file without a record is skipped, the name comes
\* from the following sources, and no generator fails because of it: the
\* only generator left that can fail is the FAQ one, on its own items.
C8_UnreadableOrgSkipped ==
    (Ended /\ repo # <<>> /\ OrgFileUnreadable(OrgFile(fs.org))) =>
        \A t \in Targets :
            \/ /\ files[t].kind = "page"
               /\ files[t].page.app_name = escape_html(Str(NameOf(<<>>, fs, repo)))
            \/ /\ t = "faqs.html"
               /\ FaqRaises(Records(DataFiles(fs.faqs, FALSE)))

\* two files are the same up to the footer's time stamp
SameButStamp(f, g) ==
    /\ f.kind = g.kind
    /\ f.kind = "page" => [f.page EXCEPT !.footer = 0] = [g.page EXCEPT !.footer = 0]

\* C9: a second run on the same repository leaves every target as the
\* first run left it, except for the time stamp in the footer.
C9_RebuildIdentical ==
    (Ended /\ clock >= 2) => \A t \in Targets : SameButStamp(files[t], prev[t])

\* C9 witness: the second run has ended, having written a page again with
\* another stamp and having left a target absent again
C9_Witness ==
    /\ Ended /\ clock = 2
    /\ files["about.html"].kind = "page" /\ prev["about.html"].kind = "page"
    /\ files["about.html"].page.footer # prev["about.html"].page.footer
    /\ files["faqs.html"].kind = "absent" /\ prev["faqs.html"].kind = "absent"

\* the alias keys of the field that differ from its canonical key
OtherAliases(f) == SeqToSet(FIELD_ALIASES[f]) \ {f}

\* the record holds the canonical key and alias key k, with different values
BothPresent(k) ==
    /\ canon \in DOMAIN rec.d
    /\ k \in DOMAIN rec.d
    /\ rec.d[canon] # rec.d[k]

\* C10 as stated: when the record holds the canonical key and an alias key
\* with different values, resolve returns the canonical key's value.
C10_CanonicalWins ==
    rpc = "resolved" =>
        \A k \in OtherAliases(canon) : BothPresent(k) => out = rec.d[canon]

\* C10: when the record holds the canonical key and an alias key with
\* different values, and the canonical key's value is non-empty or 0,
\* resolve returns the canonical key's value.
C10_PresentCanonicalWins ==
    rpc = "resolved" =>
        \A k \in OtherAliases(canon) :
            (BothPresent(k) /\ (Truthy(rec.d[canon]) \/ EqZero(rec.d[canon])))
                => out = rec.d[canon]

\* C10 witness: phone and its alias telephone both present with different
\* non-empty values, and resolve has returned the value of phone
C10_Witness ==
    /\ rpc = "resolved" /\ canon = "phone"
    /\ DOMAIN rec.d = {"phone", "telephone"}
    /\ rec.d["phone"] = Str(S_a) /\ rec.d["telephone"] = Num(7)
    /\ out = Str(S_a)

\* the record does not hold key k, or holds it with None or ""
Unset(k) == k \notin DOMAIN rec.d \/ rec.d[k] \in {Null, Str(<<>>)}

\* position i of the try order is the first whose key is not unset, and
\* the key holds v
FirstSetIs(i, v) ==
    /\ TryOrder(canon)[i] \in DOMAIN rec.d
    /\ rec.d[TryOrder(canon)[i]] = v
    /\ \A j \in 1..(i - 1) : Unset(TryOrder(canon)[j])

S_CoordsZero == S_MapsQuery \o <<"0", ",", "0">> \o S_ZoomEmbed

\* both coordinates of the record are the number 0, and it holds no more
ZeroCoordinates ==
    \E k1 \in FieldKeys("latitude"), k2 \in FieldKeys("longitude") :
        DOMAIN rec.d = {k1, k2} /\ rec.d[k1] = Num(0) /\ rec.d[k2] = Num(0)

\* C11: the number 0 is a present value: where the first key of the try
\* order that holds more than None or "" holds 0, resolve returns 0 and
\* _first_nonempty turns it into "0", and a record whose latitude and
\* longitude are 0 gets the coordinate map link; an empty string is passed
\* over: where the keys before a key are unset, "" among them, the value
\* of that key (0, 7 or "a") is returned.
C11_ZeroIsPresent ==
    /\ (rpc = "resolved" /\ \E i \in 1..Len(TryOrder(canon)) : FirstSetIs(i, Num(0)))
          => out = Num(0)
    /\ (rpc = "shown" /\ \E i \in 1..Len(TryOrder(canon)) : FirstSetIs(i, Num(0)))
          => out = Str(<<"0">>)
    /\ \A v \in {Num(0), Num(7), Str(S_a)} :
          (rpc = "resolved" /\ \E i \in 1..Len(TryOrder(canon)) : FirstSetIs(i, v))
              => out = v
    /\ (rpc = "mapped" /\ ZeroCoordinates) => out = Str(S_CoordsZero)

\* C11 witness: latitude is "" and lat is 0: resolve has passed over the
\* empty string and returned the 0, shown as "0"
C11_Witness ==
    /\ rpc = "shown" /\ canon = "latitude"
    /\ DOMAIN rec.d = {"latitude", "lat"}
    /\ rec.d["latitude"] = Str(<<>>) /\ rec.d["lat"] = Num(0)
    /\ out = Str(<<"0">>)

\* the presence rule: a str that is non-empty after trimming, any number,
\* or a mapping whose "@value" is such a str
Present(v) ==
    \/ IsStr(v) /\ Strip(v.s) # <<>>
    \/ IsNum(v)
    \/ /\ IsDict(v)
       /\ "@value" \in DOMAIN v.d
       /\ IsStr(v.d["@value"])
       /\ Strip(v.d["@value"].s) # <<>>

\* position i of the try order is the first whose key holds a present value
FirstPresentAt(i) ==
    /\ TryOrder(canon)[i] \in DOMAIN rec.d
    /\ Present(rec.d[TryOrder(canon)[i]])
    /\ \A j \in 1..(i - 1) :
          TryOrder(canon)[j] \in DOMAIN rec.d => ~Present(rec.d[TryOrder(canon)[j]])

\* C12: resolve returns the value of the first key, in the order canonical
\* key then aliases, whose value is present by the presence rule; a key
\* whose value is not present, such as a whitespace-only string, does not
\* keep resolution from a later key that holds a present value.
C12_FirstPresentWins ==
    \A i \in 1..Len(TryOrder(canon)) :
        FirstPresentAt(i) =>
            /\ rpc = "resolved" => out = rec.d[TryOrder(canon)[i]]
            /\ rpc = "shown" => out = Str(_first_nonempty(<<rec.d[TryOrder(canon)[i]]>>))

\* every top-level key of the field is unset
TopLevelFailed == \A i \in 1..Len(TryOrder(canon)) : Unset(TryOrder(canon)[i])

\* the nested value under key k, None where the record has none
NestedUnder(k) == IF k \in DOMAIN rec.d THEN rec.d[k] ELSE Null

\* the str of key k of a nested mapping, trimmed, "" where it has none
NestedStr(m, k) ==
    IF k \in DOMAIN m.d /\ IsStr(m.d[k]) THEN Strip(m.d[k].s) ELSE <<>>

\* what the contact point gives for the field: for phone its telephone,
\* else its phone; for email its email
FromContactPoint(cp) ==
    IF ~IsDict(cp) THEN Null
    ELSE IF canon = "email" THEN Str(NestedStr(cp, "email"))
    ELSE IF NestedStr(cp, "telephone") # <<>> THEN Str(NestedStr(cp, "telephone"))
    ELSE Str(NestedStr(cp, "phone"))

\* what the geo mapping gives for the coordinate
FromGeo(geo) ==
    IF IsDict(geo) /\ canon \in DOMAIN geo.d THEN geo.d[canon] ELSE Null

\* what the nested fallback of the field gives
NestedResult ==
    IF canon \in {"latitude", "longitude"} THEN FromGeo(NestedUnder("geo"))
    ELSE IF canon \in {"phone", "email"}
    THEN FromContactPoint(IF NestedUnder("contactPoint") # Null
                          THEN NestedUnder("contactPoint")
                          ELSE NestedUnder("contact_point"))
    ELSE Null

\* C13: when the canonical key and every alias are unset at the top level,
\* resolve gives what the nested mapping gives (geo for a coordinate;
\* contactPoint, else contact_point, for phone and email, phone reading
\* telephone before phone) and None without a nested mapping; a value that
\* is set at the top level (0, 7 or "a") wins over any nested one.
C13_NestedFallback ==
    rpc = "resolved" =>
        /\ TopLevelFailed => out = NestedResult
        /\ \A v \in {Num(0), Num(7), Str(S_a)} :
              (\E i \in 1..Len(TryOrder(canon)) : FirstSetIs(i, v)) => out = v

\* C13 witness: phone is "" at the top level and the contact point holds a
\* telephone and a phone: resolve has returned the telephone
C13_Witness ==
    /\ rpc = "resolved" /\ canon = "phone"
    /\ DOMAIN rec.d = {"phone", "contactPoint"}
    /\ rec.d["phone"] = Str(<<>>)
    /\ rec.d["contactPoint"] = Dict([telephone |-> Str(S_phone1), phone |-> Str(S_a)])
    /\ out = Str(S_phone1)

\* a field of the record as the synthesizers read it
Field(f) == _first_nonempty(<<_alias_get(rec, f)>>)

\* both coordinates of the record resolve to numbers
NumericPair == IsNum(_alias_get(rec, "latitude")) /\ IsNum(_alias_get(rec, "longitude"))

S_Coords ==
    S_MapsQuery \o Field("latitude") \o <<",">> \o Field("longitude") \o S_ZoomEmbed

\* the part of an address link between "?q=" and "&output=embed"
QueryOf(link) == SubSeq(link, Len(S_MapsQuery) + 1, Len(link) - Len(S_Embed))

\* a query string that needs no further escaping
UrlSafe(q) ==
    \A i \in 1..Len(q) : IsAlnumCh(q[i]) \/ q[i] \in {"-", "_", ".", "~", "+", "%"}

\* "1 A&B St" as quote_plus gives it
S_street_quoted == <<"1","+","A","%","2","6","B","+","S","t">>

\* the link for an address: the query URL of the escaped address
AddressLink(link, address) ==
    /\ SubSeq(link, 1, Len(S_MapsQuery)) = S_MapsQuery
    /\ SubSeq(link, Len(link) - Len(S_Embed) + 1, Len(link)) = S_Embed
    /\ UrlSafe(QueryOf(link))
    /\ address = S_street => QueryOf(link) = S_street_quoted
    /\ address = S_city => QueryOf(link) = S_city

\* the link for the record's embed URL, external map URL and address
LaterLink(link, embed, gmaps, address) ==
    IF embed # <<>> THEN link = embed
    ELSE IF gmaps # <<>> THEN link = gmaps
    ELSE IF address # <<>> THEN AddressLink(link, address)
    ELSE link = <<>>

\* C14: the map link is the coordinate query URL when latitude and
\* longitude are numbers, whatever else the record holds; otherwise the
\* embed URL; otherwise the external map URL; otherwise, for a non-empty
\* formatted address, the query URL of the URL-escaped address; otherwise "".
C14_MapPriority ==
    rpc = "mapped" =>
        IF NumericPair THEN out = Str(S_Coords)
        ELSE LaterLink(out.s, Field("map_embed_url"), Field("google_maps_url"),
                       _format_address(Get(rec, "address"), rec))

\* C14 witness: numeric coordinates, an embed URL, an external URL and an
\* address are all there, and the link is the coordinate one
C14_Witness ==
    /\ rpc = "mapped"
    /\ rec = Dict(("latitude" :> Num(40)) @@ ("longitude" :> Num(0 - 7))
                  @@ ("map_embed_url" :> Str(S_embed_url))
                  @@ ("google_maps_url" :> Str(S_gmaps_url))
                  @@ ("address" :> Str(S_street)))
    /\ out = Str(S_MapsQuery \o <<"4","0",",","-","7">> \o S_ZoomEmbed)

\* the record's name-like fields in the order the resolver reads them
NameLikeFields ==
    <<"title", "service_name", "name", "headline", "service", "offering",
      "product_name", "category", "subtype", "type", "label">>

\* the str under key k of the record, trimmed, "" where there is none
TrimmedUnder(k) ==
    IF k \in DOMAIN rec.d /\ IsStr(rec.d[k]) THEN Strip(rec.d[k].s) ELSE <<>>

\* the initial title: the first non-empty value among the name-like fields
RECURSIVE FirstTrimmed(_)
FirstTrimmed(keys) ==
    IF keys = <<>> THEN <<>>
    ELSE IF TrimmedUnder(Head(keys)) # <<>> THEN TrimmedUnder(Head(keys))
    ELSE FirstTrimmed(Tail(keys))

InitialTitle == FirstTrimmed(NameLikeFields)

\* the initial title is one the resolver has to reject
InitialRejected == \E t \in RejectedTitles : Strip(t) = InitialTitle

\* the title the file name stands for
FileTitle ==
    CASE path.stem = S_tax_planning -> S_TaxPlanning
      [] path.stem = T_roof_file  -> T_RoofRepair
      [] path.stem = S_service      -> T_Service

\* the record has keywords to fall back on
HasKeywords == "keywords" \in DOMAIN rec.d /\ Truthy(rec.d["keywords"])

\* C15 as stated: a rejected initial title always gives the title of the
\* file name, and any other title is returned unchanged.
C15_RejectedGivesFileTitle ==
    rpc = "titled" =>
        out = Str(IF InitialRejected THEN FileTitle ELSE InitialTitle)

\* C15: an initial title that is empty, whitespace-only, one of the
\* placeholder words in any case, or service/item/entry with a number is
\* rejected, and for a record without keywords the title of the file name
\* is returned; any other title, such as "Tax Planning", is returned
\* unchanged.
C15_RejectedTitles ==
    rpc = "titled" =>
        /\ (InitialRejected /\ ~HasKeywords) => out = Str(FileTitle)
        /\ ~InitialRejected => out = Str(InitialTitle)

\* C15 witness: the title "item 3" of a record without keywords has been
\* replaced with the title of tax-planning.json
C15_Witness ==
    /\ rpc = "titled"
    /\ rec = Dict("title" :> Str(T_item3))
    /\ path.stem = S_tax_planning
    /\ out = Str(S_TaxPlanning)

\* the title the record's keywords stand for: the first two, joined and
\* title-cased
KeywordTitle ==
    IF rec.d["keywords"] = Str(S_tbd) THEN T_Tbd ELSE T_RoofSiding

\* C16: the first non-empty name-like field is the only candidate; when it
\* is rejected the title is the first two keywords joined and title-cased,
\* and the title of the file name when there are no keywords or when the
\* keyword title is a placeholder again.
C16_FallbackOrder ==
    rpc = "titled" =>
        out = Str(IF ~InitialRejected THEN InitialTitle
                  ELSE IF HasKeywords /\ KeywordTitle # T_Tbd THEN KeywordTitle
                  ELSE FileTitle)

\* C16 witness: the title is "Service", a name is there too, and the
\* keywords have given the title
C16_Witness ==
    /\ rpc = "titled"
    /\ "title" \in DOMAIN rec.d /\ rec.d["title"] = Str(T_Service)
    /\ "name" \in DOMAIN rec.d
    /\ HasKeywords
    /\ out = Str(T_RoofSiding)

\* the record holds every key of the given part, with the same values
Holds(part) == \A k \in DOMAIN part : k \in DOMAIN rec.d /\ rec.d[k] = part[k]

\* the bullets the features / benefits / highlights list stands for
FeatureBullets ==
    CASE Holds(F_dup)      -> <<B_Fast, B_Cheap>>
      [] Holds(F_four)     -> <<B_Fast, B_Cheap, B_Safe>>
      [] Holds(F_benefits) -> <<B_Warm>>
      [] Holds(F_both)     -> <<B_Safe>>
      [] Holds(F_text)     -> <<B_Fast, B_Cheap>>
      [] OTHER             -> <<>>

\* the bullets the specialties / capabilities list stands for
SpecialtyBullets ==
    CASE Holds(P_four) -> <<B_Roofs, B_Decks, B_Sheds>>
      [] Holds(P_fast) -> <<B_FAST>>
      [] OTHER         -> <<>>

\* the one bullet the areas list stands for
AreaBullets ==
    CASE Holds(A_six)    -> <<B_AreasSix>>
      [] Holds(A_text)   -> <<B_AreasUlmBonn>>
      [] Holds(A_served) -> <<B_AreasUlmBonn>>
      [] OTHER           -> <<>>

\* no two bullets of the list are equal ignoring case
NoTwoAlike(bs) ==
    \A i, j \in 1..Len(bs) : i # j => Lower(bs[i].s) # Lower(bs[j].s)

\* C17: the bullet extractor returns at most 4 bullets, no two equal
\* ignoring case, in first-seen order: up to 3 from features / benefits /
\* highlights, or up to 3 from specialties / capabilities only when the
\* first list gave none, then one "Service areas: ..." bullet of the first
\* 5 areas; a case-variant duplicate among the features gives one bullet.
C17_Bullets ==
    rpc = "bulleted" =>
        /\ Len(out.l) <= 4
        /\ NoTwoAlike(out.l)
        /\ out = StrList((IF FeatureBullets # <<>> THEN FeatureBullets
                          ELSE SpecialtyBullets) \o AreaBullets)

\* C17 witness: five features with "Fast" and "FAST" among the first three,
\* specialties and six areas have given three bullets
C17_Witness ==
    /\ rpc = "bulleted"
    /\ Holds(F_dup) /\ Holds(P_four) /\ Holds(A_six)
    /\ out = StrList(<<B_Fast, B_Cheap, B_AreasSix>>)

\* the path holds a document in a file type the loader parses
Parseable == path.raw.k = "doc" /\ path.ext \in {EXT_json, EXT_yaml, EXT_yml}

\* C18: the record loader never raises: for a missing path, an empty file,
\* unparseable content or an unsupported file extension it returns an empty
\* list, and for every parseable file it returns a list.
C18_LoaderNeverRaises ==
    rpc = "loaded" =>
        /\ out.k = "return"
        /\ IsList(out.v)
        /\ (\/ path.raw.k \in {"missing", "blank", "bad", "unopenable", "undecodable"}
            \/ path.ext \notin {EXT_json, EXT_yaml, EXT_yml}) => out.v = Lst(<<>>)
        /\ (Parseable /\ IsList(path.raw.v)) => out.v = path.raw.v
        /\ (Parseable /\ path.raw.v \in {Dict("name" :> Str(S_a)), Str(S_a), Num(7)})
               => out.v = Lst(<<path.raw.v>>)

\* C18 witness: a .json file with unparseable content has been loaded as
\* the empty list
C18_Witness ==
    /\ rpc = "loaded"
    /\ path.ext = EXT_json
    /\ path.raw = Bad
    /\ out = Returns(Lst(<<>>))

\* the payload of the file at path
Payload == path.raw.v

\* the payload is a mapping that holds a list under locations
WrapsLocations ==
    /\ IsDict(Payload)
    /\ "locations" \in DOMAIN Payload.d
    /\ IsList(Payload.d["locations"])

\* C19: a location file whose top-level payload is a mapping containing a
\* locations list is unwrapped into one record per list element, a
\* top-level mapping without such a list becomes a single record, and a
\* top-level list yields its elements.
C19_LocationsUnwrapped ==
    rpc = "read" =>
        /\ WrapsLocations => out = Payload.d["locations"]
        /\ (IsDict(Payload) /\ ~WrapsLocations) => out = Lst(<<Payload>>)
        /\ IsList(Payload) => out = Payload

\* the str under the first of the keys the entry holds, "" where none
RECURSIVE TimeUnder(_, _)
TimeUnder(e, keys) ==
    IF keys = <<>> THEN <<>>
    ELSE IF Head(keys) \in DOMAIN e.d THEN e.d[Head(keys)].s
    ELSE TimeUnder(e, Tail(keys))

\* the day an entry stands for: the token after the last "/", the first
\* element of a list
ClaimedDay(e) ==
    LET keys == {"dayOfWeek", "day", "weekday"} \cap DOMAIN e.d
    IN  IF keys = {} THEN <<>>
        ELSE LET v == e.d[CHOOSE k \in keys : TRUE]
             IN  CASE v = Str(H_SlashTue) -> H_Tue
                   [] IsList(v)           -> v.l[1].s
                   [] OTHER               -> v.s

\* the time as the row shows it
TimeShown(t) == IF t = <<>> THEN <<EmDash>> ELSE t

\* the row an entry stands for, "" when it has no day or no time
ClaimedRowOf(day, opens, closes) ==
    IF day = <<>> \/ (opens = <<>> /\ closes = <<>>) THEN <<>>
    ELSE day \o <<":", " ">> \o TimeShown(opens) \o <<" ", EnDash, " ">>
             \o TimeShown(closes)

ClaimedRow(e) ==
    ClaimedRowOf(ClaimedDay(e), TimeUnder(e, <<"opens", "openingTime">>),
                 TimeUnder(e, <<"closes", "closingTime">>))

\* the rows a list of entries stands for, joined with "; "
RECURSIVE ClaimedRows(_)
ClaimedRows(es) ==
    IF es = <<>> THEN <<>>
    ELSE LET rest == ClaimedRows(Tail(es))
         IN  IF ClaimedRow(Head(es)) = <<>> THEN rest
             ELSE IF rest = <<>> THEN ClaimedRow(Head(es))
             ELSE ClaimedRow(Head(es)) \o <<";", " ">> \o rest

\* the record's structured list of entries
EntriesGiven ==
    IF "openingHoursSpecification" \in DOMAIN rec.d
    THEN rec.d["openingHoursSpecification"].l
    ELSE IF "opening_hours_specification" \in DOMAIN rec.d
    THEN rec.d["opening_hours_specification"].l
    ELSE <<>>

\* the record has a direct hours field
DirectHours == DOMAIN rec.d \cap {"hours", "business_hours"} # {}

\* C20: without a direct hours field the hours formatter renders every
\* structured entry that has a day and a time as "<day>: <opens> - <closes>"
\* with an em dash for a missing time, the day being the token after the
\* last "/" or the first element of a list-valued day, joined with "; ";
\* a direct hours field is returned instead.
C20_HoursRows ==
    rpc = "hours" =>
        out = Str(IF DirectHours THEN H_direct ELSE ClaimedRows(EntriesGiven))

\* the value a part has in mapping d when one of the keys is there
PartOf(d, keys, value) == IF keys \cap DOMAIN d # {} THEN value ELSE <<>>

\* two pieces with one space between them, a missing piece left out
Spaced(a, b) ==
    IF a = <<>> THEN b ELSE IF b = <<>> THEN a ELSE a \o <<" ">> \o b

\* city and state with ", " between them when both are there
CityState(city, state) ==
    IF city # <<>> /\ state # <<>> THEN city \o <<",", " ">> \o state
    ELSE city \o state

\* the composed form of street, line 2, "city, state" and postal code
Composed(street, line2, city, state, zipc) ==
    Spaced(Spaced(Spaced(street, line2), CityState(city, state)), zipc)

\* the composed form of a mapping address
ComposedFromMapping(d) ==
    Composed(PartOf(d, {"streetAddress"}, S_street), PartOf(d, {"suite"}, A_line2),
             PartOf(d, {"city"}, S_city), PartOf(d, {"addressRegion"}, A_state),
             PartOf(d, {"postalCode"}, A_zip))

\* the composed form of the owning record's parts
ComposedFromRecord(d) ==
    Composed(PartOf(d, {"street"}, S_street), PartOf(d, {"address_line_2"}, A_line2),
             PartOf(d, {"address_city"}, S_city), PartOf(d, {"province"}, A_state),
             PartOf(d, {"zip"}, A_zip))

\* the record's raw address, None where it has none
RawAddress == IF "address" \in DOMAIN rec.d THEN rec.d["address"] ELSE Null

\* C21: the address formatter returns a non-empty string address trimmed;
\* for a mapping address it composes street, line 2, "city, state" and
\* postal code from the mapping's own keys; for any other raw value it
\* composes them from the owning record; city and state get ", " between
\* them only when both are there, the parts are joined by single spaces in
\* that order, and the result is "" when no part resolves.
C21_AddressFormat ==
    rpc = "addressed" =>
        out = Str(IF RawAddress = Str(A_verbatim) THEN A_trimmed
                  ELSE IF IsDict(RawAddress) THEN ComposedFromMapping(RawAddress.d)
                  ELSE ComposedFromRecord(rec.d))

\* C21 witness: a record whose address is a number and that holds street,
\* city, state and postal code has been given the composed address
C21_Witness ==
    /\ rpc = "addressed"
    /\ RawAddress = Num(5)
    /\ out = Str(S_street \o <<" ">> \o S_city \o <<",", " ">> \o A_state
                 \o <<" ">> \o A_zip)

\* the first file of organization directory d is f
OrgHolds(d, f) == fs.org[d].exists /\ fs.org[d].list = <<f>>

\* the organization directory whose file load_org_meta reads, 0 if none
FirstOrgDir ==
    IF \E d \in 1..5 : fs.org[d].exists
    THEN CHOOSE d \in 1..5 : fs.org[d].exists /\ \A e \in 1..(d - 1) : ~fs.org[e].exists
    ELSE 0

\* source 1: the name of the first record of the organization file
NameFromOrg ==
    IF FirstOrgDir # 0 /\ OrgHolds(FirstOrgDir, OrgWithName) THEN N_Org ELSE <<>>

\* source 2: the name the probed directories give, organization-like
\* directories first, then reviews, services and locations
NameFromContent ==
    IF \E d \in 1..5 : OrgHolds(d, OrgWithName) THEN N_Org
    ELSE IF \E d \in 1..5 : OrgHolds(d, OrgWithCompany) THEN N_Company
    ELSE IF fs.reviews.exists THEN N_Reviews
    ELSE IF fs.services = NamedDir("name", N_Services) THEN N_Services
    ELSE IF fs.locations.exists THEN N_Locations
    ELSE <<>>

\* source 3 as stated: the identifier's slug after the last "/"
NameFromRepoLast ==
    IF repo \in {S_repo, N_repo_plain, N_repo_nested} THEN N_MySite ELSE <<>>

\* the first of the sources that gives a name, else "Site"
FirstSource(a, b, c) ==
    IF a # <<>> THEN a ELSE IF b # <<>> THEN b ELSE IF c # <<>> THEN c ELSE S_Site

\* C22: the brand name of a rendered page is never empty and comes from
\* the first source that gives a name: the first record of an
\* organization-like directory, the other probed directories, the
\* repository identifier's slug after the last "/" with hyphens as spaces
\* and title-cased, the literal "Site".
C22_BrandPriority ==
    (rpc = "branded" /\ out.k = "return") =>
        /\ out.v.s # <<>>
        /\ out.v = Str(FirstSource(NameFromOrg, NameFromContent, NameFromRepoLast))

\* the items of the FAQ file, in file order
ItemsGiven ==
    IF ~fs.faqs.exists \/ fs.faqs.list = <<>> THEN <<>>
    ELSE LET p == fs.faqs.list[1].raw.v
         IN  IF IsList(p) THEN p.l ELSE <<p>>

\* the item has a question that is not empty
HasQuestion(i) ==
    "question" \in DOMAIN i.d /\ i.d["question"] \in {Str(Q_padded), Str(Q_escaped)}

\* the card an item with a question stands for
CardOf(i) ==
    [question |-> IF i.d["question"] = Str(Q_padded)
                  THEN escape_html(Str(S_question)) ELSE escape_html(Str(Q_escaped)),
     answer   |-> IF "answer" \in DOMAIN i.d
                  THEN escape_html(Str(S_answer)) ELSE escape_html(Str(<<>>))]

\* the cards of the items that have a question, in order
RECURSIVE CardsOf(_)
CardsOf(items) ==
    IF items = <<>> THEN <<>>
    ELSE IF HasQuestion(Head(items)) THEN <<CardOf(Head(items))>> \o CardsOf(Tail(items))
    ELSE CardsOf(Tail(items))

OwnTargetOnly ==
    pc \in Targets =>
        ((\A t \in Targets \ {pc} : files'[t] = files[t])
            /\ marker' = marker /\ fs' = fs)

\* C24: a page assembler creates or modifies its own target file only: a
\* turn of the generator loop leaves the other six targets, the marker file
\* and the input tree as they were, whether the generator returned, raised
\* or left the process.
C24_OwnTargetOnly == [][OwnTargetOnly]_vars

\* C24 witness: the FAQ generator has raised and the run has ended with the
\* pages written before and after it in place
C24_Witness ==
    /\ pc = "exited"
    /\ returned["faqs.html"] = "raise"
    /\ files["faqs.html"].kind = "absent"
    /\ \A t \in Targets \ {"faqs.html"} : files[t].kind = "page"

\* the lines of the file at path
FileLines == path.raw.lines

\* the line that closes a block opened on the first line, 0 if there is no
\* such block
ClosingLine ==
    IF FileLines # <<>> /\ FileLines[1] = S_dashes
          /\ \E i \in 2..Len(FileLines) : FileLines[i] = S_dashes
    THEN CHOOSE i \in 2..Len(FileLines) :
             FileLines[i] = S_dashes /\ \A j \in 2..(i - 1) : FileLines[j] # S_dashes
    ELSE 0

\* the file has no block at its top
NoLeadingBlock == FileLines = <<>> \/ FileLines[1] # S_dashes

\* the body made of the given lines
BodyOf(ls) == [i \in 1..Len(ls) |-> HelpLine(ls[i])]

\* the title the file name a.md stands for
T_FromFileName == <<"A">>

\* C25: in the help assembler only a block that starts at the top of the
\* file is front matter: the lines between its opening and closing "---"
\* are left out of the body and a title line among them gives the title;
\* a file without a leading block keeps every line in the body and takes
\* its title from the file name.
C25_LeadingFrontMatter ==
    rpc = "article" =>
        /\ ClosingLine # 0 =>
              /\ out.body = BodyOf(SubSeq(FileLines, ClosingLine + 1, Len(FileLines)))
              /\ out.title = escape_html(Str(
                     IF \E j \in 2..(ClosingLine - 1) : FileLines[j] = L_title
                     THEN S_b ELSE T_FromFileName))
        /\ NoLeadingBlock =>
              /\ out.body = BodyOf(FileLines)
              /\ out.title = escape_html(Str(T_FromFileName))

\* the first record of the location file
FirstLocation == fs.locations.list[1].raw.v.l[1]

\* the text the first record holds under key k, "" where it has none
FirstHolds(k) ==
    IF k \in DOMAIN FirstLocation.d THEN FirstLocation.d[k].s ELSE <<>>

\* C26: the Quick Contact card of the contact page is built from the first
\* location record only: a phone or email the first record lacks is left
\* out of the card, not taken from a later record.
C26_QuickContactFirstOnly ==
    (rpc = "contact" /\ out.file.kind = "page") =>
        /\ out.file.page.content.quick.name =
               escape_html(Str(IF FirstHolds("name") # <<>> THEN FirstHolds("name")
                               ELSE S_Location))
        /\ out.file.page.content.quick.phone = escape_html(Str(FirstHolds("telephone")))
        /\ out.file.page.content.quick.email = escape_html(Str(FirstHolds("email")))

\* the reviews of the review file
ReviewsRead == fs.reviews.list[1].raw.v.l

\* the rating of a review as a positive number, 0 where it has none
PositiveRating(r) ==
    IF "rating" \notin DOMAIN r.d THEN 0
    ELSE IF r.d["rating"] = Str(<<"4">>) THEN 4
    ELSE IF IsNum(r.d["rating"]) /\ r.d["rating"].n > 0 THEN r.d["rating"].n
    ELSE 0

RECURSIVE RatingSum(_)
RatingSum(rs) ==
    IF rs = <<>> THEN 0 ELSE PositiveRating(Head(rs)) + RatingSum(Tail(rs))

RECURSIVE RatingCount(_)
RatingCount(rs) ==
    IF rs = <<>> THEN 0
    ELSE (IF PositiveRating(Head(rs)) > 0 THEN 1 ELSE 0) + RatingCount(Tail(rs))

\* k is a whole number nearest to total / n
Nearest(k, total, n) ==
    /\ 2 * (total - k * n) <= n
    /\ 2 * (k * n - total) <= n

\* the star string of the facts shown for the given sum and count
StarsFor(total, n) ==
    IF n = 0 THEN out.rated = 0
    ELSE /\ out.rated = n
         /\ out.total = total
         /\ Nearest(out.filled, total, n)
         /\ out.filled + out.hollow = 5

\* C27: the average rating of the About page is taken over all reviews
\* with a positive numeric rating, the star string shows that average
\* rounded to the nearest whole number as filled stars, padded with empty
\* stars to exactly five glyphs, and without a usable rating there is no
\* rating line.
C27_FiveStars ==
    rpc = "facts" => StarsFor(RatingSum(ReviewsRead), RatingCount(ReviewsRead))

\* the number of service cards the written Services page shows
CardsShown ==
    IF files["services.html"].page.content.kind = "cards"
    THEN Len(files["services.html"].page.content.items)
    ELSE 0

\* C28: the "Services offered" count of the About page equals the number
\* of service cards of the Services page, whatever the services directory
\* holds.
C28_CountMatchesCards ==
    pc = "testimonials.html" =>
        /\ files["about.html"].kind = "page"
        /\ files["services.html"].kind = "page"
        /\ files["about.html"].page.content.facts.services = CardsShown

\* C28 witness: two files, one of them with a parent record whose services
\* list holds two mappings and a string, have given three cards and the
\* count 3
C28_Witness ==
    /\ pc = "testimonials.html"
    /\ Len(fs.services.list) = 2
    /\ fs.services.list[2].raw =
           Doc(Lst(<<Dict("services" :> Lst(<<Dict("name" :> Str(S_b)), Str(S_a),
                                              Dict(NoKey)>>))>>))
    /\ CardsShown = 3
    /\ files["about.html"].page.content.facts.services = 3

\* C29: when the loop over the generators is done, the success flag is
\* true exactly when at least one generator returned success (a written
\* placeholder page counts), and a generator that returned success has its
\* target file in place.
C29_FlagMatchesReturns ==
    pc = "done" =>
        /\ anySuccess <=> \E t \in Targets : returned[t] = "true"
        /\ \A t \in Targets : returned[t] = "true" => files[t].kind = "page"

\* C29 witness: the loop is done, the flag is set, one generator raised and
\* another returned success with a placeholder page
C29_Witness ==
    /\ pc = "done"
    /\ anySuccess
    /\ returned["faqs.html"] = "raise"
    /\ returned["help.html"] = "true"
    /\ files["help.html"].kind = "page"
    /\ files["help.html"].page.content = Placeholder(MSG_Help)

\* C30: the title the services title resolver returns is never a
\* placeholder title: it is not empty, no blocklisted word, and not
\* service / item / entry followed by a number, for every service record
\* and every source file name.
C30_NeverPlaceholder ==
    rpc = "titled" => (out.s # <<>> /\ ~_is_placeholder_title(out))

====
